---- MODULE Spec2Model ----
(***************************************************************************)
(* Log_Analyzer: the log parsing engine (services/parser.py) and the       *)
(* anomaly detection engine (services/anomalies.py).                       *)
(*                                                                         *)
(* Text is modelled as TLA+ strings, read character by character (ASCII).  *)
(* Python values stored in a dict are modelled as tagged records:          *)
(*   PyStr(s), PyInt(n), PyBool(b), PyNone; a dict is a function from key  *)
(* strings to such values, an absent key is a key outside its DOMAIN.     *)
(* Arithmetic on rates is exact (rationals compared by cross               *)
(* multiplication), where the program computes in binary floating point.   *)
(***************************************************************************)
EXTENDS Integers, Sequences, FiniteSets, TLC

(***************************************************************************)
(* Bounds of the model                                                     *)
(***************************************************************************)
MaxLineNum == 3
MaxFileLen == 3
MaxCap == 3

(***************************************************************************)
(* Python values                                                           *)
(***************************************************************************)
PyNone == [t |-> "none"]
PyStr(s) == [t |-> "str", v |-> s]
PyInt(n) == [t |-> "int", v |-> n]
PyBool(b) == [t |-> "bool", v |-> b]

IsStr(x) == x.t = "str"
IsInt(x) == x.t = "int"

\* bool(x): the truth value Python gives a value in `x or y` and `if x:`
Truthy(x) ==
  CASE x.t = "none" -> FALSE
    [] x.t = "str" -> x.v # ""
    [] x.t = "int" -> x.v # 0
    [] x.t = "bool" -> x.v
    [] OTHER -> TRUE

\* x or y
Or(x, y) == IF Truthy(x) THEN x ELSE y

\* d.get(k) and d.get(k, default)
Get(d, k) == IF k \in DOMAIN d THEN d[k] ELSE PyNone
GetDefault(d, k, default) == IF k \in DOMAIN d THEN d[k] ELSE default

(***************************************************************************)
(* Characters and character classes                                        *)
(***************************************************************************)
Ch(s, i) == SubSeq(s, i, i)

Space == {" ", "\t", "\n", "\r", "\f"}
Digit == {"0", "1", "2", "3", "4", "5", "6", "7", "8", "9"}
LowerAlphabet == "abcdefghijklmnopqrstuvwxyz"
UpperAlphabet == "ABCDEFGHIJKLMNOPQRSTUVWXYZ"
LowerSet == {Ch(LowerAlphabet, k) : k \in 1..26}
UpperSet == {Ch(UpperAlphabet, k) : k \in 1..26}
Word == LowerSet \cup UpperSet \cup Digit \cup {"_"}

DigitVal(c) == CHOOSE k \in 0..9 : Ch("0123456789", k + 1) = c

\* int(s) for a string of decimal digits
RECURSIVE ToInt(_)
ToInt(s) == IF s = "" THEN 0
            ELSE 10 * ToInt(SubSeq(s, 1, Len(s) - 1)) + DigitVal(Ch(s, Len(s)))

\* int(s) refuses a string of more than sys.get_int_max_str_digits() digits
\* (4300 unless the interpreter is started with another limit)
int_max_str_digits == 4300
IntLimitError == [ok |-> FALSE, exc |-> "ValueError"]
ExceedsLimit(s) == Len(s) > int_max_str_digits

\* str.isdigit()
IsDigitStr(s) == s # "" /\ \A k \in 1..Len(s) : Ch(s, k) \in Digit

UpperCh(c) == IF c \in LowerSet
              THEN Ch(UpperAlphabet, CHOOSE k \in 1..26 : Ch(LowerAlphabet, k) = c)
              ELSE c

\* str.upper()
RECURSIVE Upper(_)
Upper(s) == IF s = "" THEN "" ELSE UpperCh(Head(s)) \o Upper(Tail(s))

\* str.strip()
RECURSIVE LStrip(_)
LStrip(s) == IF s # "" /\ Head(s) \in Space THEN LStrip(Tail(s)) ELSE s
RECURSIVE RStrip(_)
RStrip(s) == IF s # "" /\ Ch(s, Len(s)) \in Space
             THEN RStrip(SubSeq(s, 1, Len(s) - 1)) ELSE s
Strip(s) == RStrip(LStrip(s))

\* the literal lit stands in s at position i
HasAt(s, i, lit) == /\ i >= 1
                    /\ i + Len(lit) - 1 <= Len(s)
                    /\ SubSeq(s, i, i + Len(lit) - 1) = lit

\* end of the longest run of characters of class cls that starts at i
\* (i - 1 when the run is empty): a greedy cls* at position i
SpanIn(s, i, cls) ==
  IF \A j \in i..Len(s) : Ch(s, j) \in cls THEN (IF i > Len(s) THEN i - 1 ELSE Len(s))
  ELSE (CHOOSE j \in i..Len(s) :
          Ch(s, j) \notin cls /\ \A k \in i..(j - 1) : Ch(s, k) \in cls) - 1
\* the same for the complemented class [^...]
SpanNotIn(s, i, cls) ==
  IF \A j \in i..Len(s) : Ch(s, j) \notin cls THEN (IF i > Len(s) THEN i - 1 ELSE Len(s))
  ELSE (CHOOSE j \in i..Len(s) :
          Ch(s, j) \in cls /\ \A k \in i..(j - 1) : Ch(s, k) \notin cls) - 1

\* exactly n digits stand in s at position i: \d{n}
DigitsAt(s, i, n) == /\ i + n - 1 <= Len(s)
                     /\ \A k \in i..(i + n - 1) : Ch(s, k) \in Digit

\* (.*) from position i: everything up to the next newline
DotStar(s, i) == SubSeq(s, i, SpanNotIn(s, i, {"\n"}))

NoMatch == [matched |-> FALSE]

(***************************************************************************)
(* LogParser.patterns (services/parser.py, __init__)                       *)
(* Each pattern is matched as re.match does it: anchored at the start of   *)
(* the string, greedy, `.` not matching a newline. A successful match is   *)
(* [matched |-> TRUE, groups |-> <<...>>].                                  *)
(***************************************************************************)
Matched(g) == [matched |-> TRUE, groups |-> g]

\* 'json': ^\{.*\}$   ($ also matches just before a final newline)
PatternJson(s) ==
  LET n == Len(s)
      j == IF n >= 1 /\ Ch(s, n) = "\n" THEN n - 1 ELSE n
  IN  IF /\ j >= 2
         /\ Ch(s, 1) = "{"
         /\ Ch(s, j) = "}"
         /\ SpanNotIn(s, 2, {"\n"}) >= j
      THEN Matched(<<>>) ELSE NoMatch

\* 'apache_error': ^\[([^\]]+)\] \[([^\]]+)\] (.*)
PatternApacheError(s) ==
  LET e1 == SpanNotIn(s, 2, {"]"})
      b2 == e1 + 4
      e2 == SpanNotIn(s, b2, {"]"})
  IN  IF /\ HasAt(s, 1, "[")
         /\ e1 >= 2
         /\ HasAt(s, e1 + 1, "] [")
         /\ e2 >= b2
         /\ HasAt(s, e2 + 1, "] ")
      THEN Matched(<<SubSeq(s, 2, e1), SubSeq(s, b2, e2), DotStar(s, e2 + 3)>>)
      ELSE NoMatch

\* 'apache' (and 'nginx'): ^(\S+) - - \[([^\]]+)\] "([^"]*)" (\d+) (\d+|-)
PatternApacheAnchored(s) ==
  LET e1 == SpanNotIn(s, 1, Space)
      b2 == e1 + 7
      e2 == SpanNotIn(s, b2, {"]"})
      b3 == e2 + 4
      e3 == SpanNotIn(s, b3, {"\""})
      b4 == e3 + 3
      e4 == SpanIn(s, b4, Digit)
      b5 == e4 + 2
      e5 == SpanIn(s, b5, Digit)
  IN  IF /\ e1 >= 1
         /\ HasAt(s, e1 + 1, " - - [")
         /\ e2 >= b2
         /\ HasAt(s, e2 + 1, "] \"")
         /\ HasAt(s, e3 + 1, "\" ")
         /\ e4 >= b4
         /\ HasAt(s, e4 + 1, " ")
         /\ (e5 >= b5 \/ HasAt(s, b5, "-"))
         /\ (IF e5 >= b5 THEN e5 ELSE b5) = Len(s)
      THEN Matched(<<SubSeq(s, 1, e1), SubSeq(s, b2, e2), SubSeq(s, b3, e3),
                     SubSeq(s, b4, e4),
                     IF e5 >= b5 THEN SubSeq(s, b5, e5) ELSE "-">>)
      ELSE NoMatch
PatternApache(s) ==
  LET e1 == SpanNotIn(s, 1, Space)
      b2 == e1 + 7
      e2 == SpanNotIn(s, b2, {"]"})
      b3 == e2 + 4
      e3 == SpanNotIn(s, b3, {"\""})
      b4 == e3 + 3
      e4 == SpanIn(s, b4, Digit)
      b5 == e4 + 2
      e5 == SpanIn(s, b5, Digit)
  IN  IF /\ e1 >= 1
         /\ HasAt(s, e1 + 1, " - - [")
         /\ e2 >= b2
         /\ HasAt(s, e2 + 1, "] \"")
         /\ HasAt(s, e3 + 1, "\" ")
         /\ e4 >= b4
         /\ HasAt(s, e4 + 1, " ")
         /\ (e5 >= b5 \/ HasAt(s, b5, "-"))
      THEN Matched(<<SubSeq(s, 1, e1), SubSeq(s, b2, e2), SubSeq(s, b3, e3),
                     SubSeq(s, b4, e4),
                     IF e5 >= b5 THEN SubSeq(s, b5, e5) ELSE "-">>)
      ELSE NoMatch

\* 'syslog':
\*   ^(\w{3}\s+\d{1,2}\s+\d{2}:\d{2}:\d{2})\s+(\S+)\s+([^:]+):\s*(.*)
\* ([^:]+) starts after the whitespace run that follows the host; when a
\* colon follows that run directly, the run gives back its last character.
PatternSyslog(s) ==
  LET w1 == SpanIn(s, 4, Space)
      d1 == SpanIn(s, w1 + 1, Digit)
      w2 == SpanIn(s, d1 + 1, Space)
      t1 == w2 + 1
      t2 == w2 + 8
      w3 == SpanIn(s, t2 + 1, Space)
      h2 == SpanNotIn(s, w3 + 1, Space)
      w4 == SpanIn(s, h2 + 1, Space)
      colonNext == HasAt(s, w4 + 1, ":")
      b3 == IF colonNext THEN w4 ELSE w4 + 1
      e3 == SpanNotIn(s, b3, {":"})
      w5 == SpanIn(s, e3 + 2, Space)
  IN  IF /\ Len(s) >= 3
         /\ \A k \in 1..3 : Ch(s, k) \in Word
         /\ w1 >= 4
         /\ d1 - w1 \in {1, 2}
         /\ w2 >= d1 + 1
         /\ DigitsAt(s, t1, 2) /\ HasAt(s, t1 + 2, ":")
         /\ DigitsAt(s, t1 + 3, 2) /\ HasAt(s, t1 + 5, ":")
         /\ DigitsAt(s, t1 + 6, 2)
         /\ w3 >= t2 + 1
         /\ h2 >= w3 + 1
         /\ w4 >= h2 + 1
         /\ (colonNext => w4 >= h2 + 2)
         /\ e3 >= b3
         /\ HasAt(s, e3 + 1, ":")
      THEN Matched(<<SubSeq(s, 1, t2), SubSeq(s, w3 + 1, h2),
                     SubSeq(s, b3, e3), DotStar(s, w5 + 1)>>)
      ELSE NoMatch

\* 'timestamp': ^(\d{4}-\d{2}-\d{2}[T\s]\d{2}:\d{2}:\d{2})
PatternTimestamp(s) ==
  IF /\ DigitsAt(s, 1, 4) /\ HasAt(s, 5, "-")
     /\ DigitsAt(s, 6, 2) /\ HasAt(s, 8, "-")
     /\ DigitsAt(s, 9, 2)
     /\ Len(s) >= 11 /\ Ch(s, 11) \in Space \cup {"T"}
     /\ DigitsAt(s, 12, 2) /\ HasAt(s, 14, ":")
     /\ DigitsAt(s, 15, 2) /\ HasAt(s, 17, ":")
     /\ DigitsAt(s, 18, 2)
  THEN Matched(<<SubSeq(s, 1, 19)>>) ELSE NoMatch

\* 'level': (ERROR|WARN|WARNING|INFO|DEBUG|CRITICAL|FATAL), re.IGNORECASE.
\* The alternatives are tried in this order at each position.
LevelAlternatives ==
  <<"ERROR", "WARN", "WARNING", "INFO", "DEBUG", "CRITICAL", "FATAL">>

\* the alternative that matches at position i of the upper-cased text u
LevelAt(u, i) ==
  LET hits == {k \in 1..Len(LevelAlternatives) : HasAt(u, i, LevelAlternatives[k])}
  IN  IF hits = {} THEN ""
      ELSE LevelAlternatives[CHOOSE k \in hits : \A m \in hits : k <= m]

RECURSIVE LevelSearchFrom(_, _, _)
LevelSearchFrom(s, u, i) ==
  IF i > Len(u) THEN NoMatch
  ELSE IF LevelAt(u, i) # ""
       THEN Matched(<<SubSeq(s, i, i + Len(LevelAt(u, i)) - 1)>>)
       ELSE LevelSearchFrom(s, u, i + 1)

\* patterns['level'].search(s)
PatternLevelSearch(s) == LevelSearchFrom(s, Upper(s), 1)

(***************************************************************************)
(* datetime: [year, month, day, hour, minute, second, microsecond,         *)
(*            aware, offset], offset being the UTC offset in seconds of an *)
(* aware value (0 for a naive one).                                        *)
(***************************************************************************)
ValueError == [ok |-> FALSE]

IsLeap(y) == (y % 4 = 0 /\ y % 100 # 0) \/ y % 400 = 0
DaysInMonth(y, m) ==
  IF m = 2 THEN (IF IsLeap(y) THEN 29 ELSE 28)
  ELSE IF m \in {4, 6, 9, 11} THEN 30 ELSE 31

DigitStr(k) == Ch("0123456789", k + 1)
Pad2(n) == DigitStr((n \div 10) % 10) \o DigitStr(n % 10)
Pad4(n) == Pad2(n \div 100) \o Pad2(n % 100)
Pad6(n) == Pad2(n \div 10000) \o Pad4(n % 10000)

\* datetime.isoformat()
IsoFormat(dt) ==
  LET a == IF dt.offset < 0 THEN 0 - dt.offset ELSE dt.offset
  IN  Pad4(dt.year) \o "-" \o Pad2(dt.month) \o "-" \o Pad2(dt.day) \o "T"
      \o Pad2(dt.hour) \o ":" \o Pad2(dt.minute) \o ":" \o Pad2(dt.second)
      \o (IF dt.microsecond # 0 THEN "." \o Pad6(dt.microsecond) ELSE "")
      \o (IF dt.aware
          THEN (IF dt.offset < 0 THEN "-" ELSE "+")
               \o Pad2(a \div 3600) \o ":" \o Pad2((a % 3600) \div 60)
               \o (IF a % 60 # 0 THEN ":" \o Pad2(a % 60) ELSE "")
          ELSE "")

(***************************************************************************)
(* datetime.strptime(s, fmt). A format is a sequence of tokens: a          *)
(* directive ("%d"), " " (compiled to \s+) or a literal character. The     *)
(* library compiles the format to a regular expression, matches it at the  *)
(* start of s (case-insensitively), and rejects s when text remains.       *)
(***************************************************************************)
MonthAbbr == <<"JAN", "FEB", "MAR", "APR", "MAY", "JUN",
               "JUL", "AUG", "SEP", "OCT", "NOV", "DEC">>
WeekdayAbbr == <<"MON", "TUE", "WED", "THU", "FRI", "SAT", "SUN">>

InSeq(x, sq) == \E k \in 1..Len(sq) : sq[k] = x

\* two characters at j: the first in c1, the second in c2
Two(s, j, c1, c2) == j + 1 <= Len(s) /\ Ch(s, j) \in c1 /\ Ch(s, j + 1) \in c2
One(s, j, c1) == j <= Len(s) /\ Ch(s, j) \in c1

\* the lengths n..1, longest first
RECURSIVE Down(_)
Down(n) == IF n <= 0 THEN <<>> ELSE <<n>> \o Down(n - 1)

Min(a, b) == IF a < b THEN a ELSE b

\* length of the text %z takes at j (0: no match):
\*   [+-]\d\d:?[0-5]\d(:?[0-5]\d)?  |  Z
ZoneLen(s, j) ==
  IF HasAt(s, j, "Z") THEN 1
  ELSE IF One(s, j, {"+", "-"}) /\ DigitsAt(s, j + 1, 2)
       THEN LET c == IF HasAt(s, j + 3, ":") THEN 1 ELSE 0
                m == j + 3 + c
            IN  IF Two(s, m, {"0", "1", "2", "3", "4", "5"}, Digit)
                THEN LET c2 == IF HasAt(s, m + 2, ":") THEN 1 ELSE 0
                         q == m + 2 + c2
                     IN  IF Two(s, q, {"0", "1", "2", "3", "4", "5"}, Digit)
                         THEN q + 2 - j ELSE m + 2 - j
                ELSE 0
       ELSE 0

\* the lengths a token can take at position j of s, in the order the
\* regular expression tries them
StrpCandidates(tok, s, j) ==
  CASE tok = "%d" ->
         (IF \/ Two(s, j, {"3"}, {"0", "1"})
             \/ Two(s, j, {"1", "2"}, Digit)
             \/ Two(s, j, {"0"}, Digit \ {"0"}) THEN <<2>> ELSE <<>>)
         \o (IF One(s, j, Digit \ {"0"}) THEN <<1>> ELSE <<>>)
         \o (IF Two(s, j, {" "}, Digit \ {"0"}) THEN <<2>> ELSE <<>>)
    [] tok = "%m" ->
         (IF \/ Two(s, j, {"1"}, {"0", "1", "2"})
             \/ Two(s, j, {"0"}, Digit \ {"0"}) THEN <<2>> ELSE <<>>)
         \o (IF One(s, j, Digit \ {"0"}) THEN <<1>> ELSE <<>>)
    [] tok = "%H" ->
         (IF \/ Two(s, j, {"2"}, {"0", "1", "2", "3"})
             \/ Two(s, j, {"0", "1"}, Digit) THEN <<2>> ELSE <<>>)
         \o (IF One(s, j, Digit) THEN <<1>> ELSE <<>>)
    [] tok = "%M" ->
         (IF Two(s, j, {"0", "1", "2", "3", "4", "5"}, Digit) THEN <<2>> ELSE <<>>)
         \o (IF One(s, j, Digit) THEN <<1>> ELSE <<>>)
    [] tok = "%S" ->
         (IF \/ Two(s, j, {"6"}, {"0", "1"})
             \/ Two(s, j, {"0", "1", "2", "3", "4", "5"}, Digit) THEN <<2>> ELSE <<>>)
         \o (IF One(s, j, Digit) THEN <<1>> ELSE <<>>)
    [] tok = "%Y" -> IF DigitsAt(s, j, 4) THEN <<4>> ELSE <<>>
    [] tok = "%f" -> Down(Min(6, SpanIn(s, j, Digit) - j + 1))
    [] tok = "%b" ->
         IF j + 2 <= Len(s) /\ InSeq(Upper(SubSeq(s, j, j + 2)), MonthAbbr)
         THEN <<3>> ELSE <<>>
    [] tok = "%a" ->
         IF j + 2 <= Len(s) /\ InSeq(Upper(SubSeq(s, j, j + 2)), WeekdayAbbr)
         THEN <<3>> ELSE <<>>
    [] tok = "%z" -> IF ZoneLen(s, j) > 0 THEN <<ZoneLen(s, j)>> ELSE <<>>
    [] tok = " " -> Down(SpanIn(s, j, Space) - j + 1)
    [] OTHER -> IF j <= Len(s) /\ UpperCh(Ch(s, j)) = UpperCh(tok)
                THEN <<1>> ELSE <<>>

RECURSIVE StrpMatch(_, _, _, _)
RECURSIVE StrpTry(_, _, _, _, _, _)
\* match the tokens fmt[i..] at position j of s; the result holds the end of
\* the match and the text each directive took
StrpMatch(fmt, i, s, j) ==
  IF i > Len(fmt) THEN [ok |-> TRUE, end |-> j - 1, f |-> <<>>]
  ELSE StrpTry(fmt, i, s, j, StrpCandidates(fmt[i], s, j), 1)
StrpTry(fmt, i, s, j, cands, k) ==
  IF k > Len(cands) THEN ValueError
  ELSE LET r == StrpMatch(fmt, i + 1, s, j + cands[k])
       IN  IF r.ok
           THEN (IF Len(fmt[i]) = 2
                 THEN [r EXCEPT !.f = (fmt[i] :> SubSeq(s, j, j + cands[k] - 1)) @@ r.f]
                 ELSE r)
           ELSE StrpTry(fmt, i, s, j, cands, k + 1)

Field(f, d, default) == IF d \in DOMAIN f THEN f[d] ELSE default

\* %f: the digits, padded with zeros on the right to six
RECURSIVE RPad6(_)
RPad6(s) == IF Len(s) >= 6 THEN s ELSE RPad6(s \o "0")

\* the offset in seconds a %z text stands for, or ValueError
ZoneOffset(z) ==
  IF z = "Z" THEN [ok |-> TRUE, v |-> 0]
  ELSE LET z1 == IF Ch(z, 4) = ":" THEN SubSeq(z, 1, 3) \o SubSeq(z, 5, Len(z)) ELSE z
           colon == Ch(z, 4) = ":"
           bad == Len(z1) > 5 /\ (colon <=> Ch(z1, 6) # ":")
           z2 == IF colon /\ Len(z1) > 5
                 THEN SubSeq(z1, 1, 5) \o SubSeq(z1, 7, Len(z1)) ELSE z1
           secs == 3600 * ToInt(SubSeq(z2, 2, 3)) + 60 * ToInt(SubSeq(z2, 4, 5))
                   + ToInt(SubSeq(z2, 6, Len(z2)))
       IN  IF bad \/ secs >= 86400 THEN ValueError
           ELSE [ok |-> TRUE, v |-> IF Ch(z, 1) = "-" THEN 0 - secs ELSE secs]

MonthOf(b) == CHOOSE k \in 1..12 : MonthAbbr[k] = Upper(b)

\* the datetime of the fields year .. zone, or ValueError when they name no
\* date or time
StrpDatetime(f, year, month, day, second, zone) ==
  IF day > DaysInMonth(year, month) \/ second > 59 \/ year < 1 \/ ~zone.ok
  THEN ValueError
  ELSE [ok |-> TRUE,
        dt |-> [year |-> year, month |-> month, day |-> day,
                hour |-> ToInt(Field(f, "%H", "0")),
                minute |-> ToInt(Field(f, "%M", "0")),
                second |-> second,
                microsecond |-> IF "%f" \in DOMAIN f THEN ToInt(RPad6(f["%f"])) ELSE 0,
                aware |-> "%z" \in DOMAIN f,
                offset |-> zone.v]]

\* the result of strptime from the match r of the format against s
StrpResult(r, s) ==
  IF ~r.ok \/ r.end # Len(s) THEN ValueError
  ELSE StrpDatetime(r.f,
                    ToInt(Field(r.f, "%Y", "1900")),
                    IF "%b" \in DOMAIN r.f THEN MonthOf(r.f["%b"])
                    ELSE ToInt(Field(r.f, "%m", "1")),
                    ToInt(LStrip(Field(r.f, "%d", "1"))),
                    ToInt(Field(r.f, "%S", "0")),
                    IF "%z" \in DOMAIN r.f THEN ZoneOffset(r.f["%z"])
                    ELSE [ok |-> TRUE, v |-> 0])

strptime(s, fmt) == StrpResult(StrpMatch(fmt, 1, s, 1), s)

(***************************************************************************)
(* LogParser._parse_timestamp                                              *)
(***************************************************************************)
formats_with_year ==
  << <<"%d", "/", "%b", "/", "%Y", ":", "%H", ":", "%M", ":", "%S", " ", "%z">>,
     <<"%d", "/", "%b", "/", "%Y", ":", "%H", ":", "%M", ":", "%S">>,
     <<"%a", " ", "%b", " ", "%d", " ", "%H", ":", "%M", ":", "%S", " ", "%Y">>,
     <<"%Y", "-", "%m", "-", "%d", " ", "%H", ":", "%M", ":", "%S">>,
     <<"%Y", "-", "%m", "-", "%d", "T", "%H", ":", "%M", ":", "%S">>,
     <<"%Y", "-", "%m", "-", "%d", "T", "%H", ":", "%M", ":", "%S", ".", "%f", "Z">> >>

formats_without_year ==
  << <<"%b", " ", "%d", " ", "%H", ":", "%M", ":", "%S">>,
     <<"%a", " ", "%b", " ", "%d", " ", "%H", ":", "%M", ":", "%S">> >>

\* the first format of fmts[k..] that parses s, or ValueError
\* try: r, except ValueError: alt
OrElse(r, alt) == IF r.ok THEN r ELSE alt

RECURSIVE FirstParse(_, _, _)
FirstParse(s, fmts, k) ==
  IF k > Len(fmts) THEN ValueError
  ELSE OrElse(strptime(s, fmts[k]), FirstParse(s, fmts, k + 1))

\* dt.replace(year=y): ValueError when the day does not exist in year y
ReplaceYearKept(dt, y) ==
  IF dt.day > DaysInMonth(y, dt.month) THEN ValueError
  ELSE [ok |-> TRUE, dt |-> dt]
ReplaceYear(dt, y) ==
  IF dt.day > DaysInMonth(y, dt.month) THEN ValueError
  ELSE [ok |-> TRUE, dt |-> [dt EXCEPT !.year = y]]

\* the first year-less format of fmts[k..] that parses s and whose date
\* exists in the current year
\* lines 227-232 for the parse r of one format: the date moved to year y, or
\* alt when either step raises ValueError
InYearOrElse(r, y, alt) == IF r.ok THEN OrElse(ReplaceYear(r.dt, y), alt) ELSE alt

RECURSIVE FirstParseNoYear(_, _, _, _)
FirstParseNoYear(s, fmts, k, current_year) ==
  IF k > Len(fmts) THEN ValueError
  ELSE InYearOrElse(strptime(s, fmts[k]), current_year,
                    FirstParseNoYear(s, fmts, k + 1, current_year))

\* return dt.isoformat() for the parse r, or alt when there is none
IsoFormatOrElse(r, alt) == IF r.ok THEN IsoFormat(r.dt) ELSE alt

_parse_timestamp(timestamp_str, current_year) ==
  IsoFormatOrElse(
    FirstParse(timestamp_str, formats_with_year, 1),
    IsoFormatOrElse(
      FirstParseNoYear(timestamp_str, formats_without_year, 1, current_year),
      timestamp_str))

(***************************************************************************)
(* json.loads(line) for a line that starts with "{".                       *)
(* The model reads flat objects: string keys, and values that are strings  *)
(* without escapes, integers, true, false or null. Any other text          *)
(* (escapes, floats, nested objects and arrays included) is reported as    *)
(* JSONDecodeError; the lines of the corpus stay inside this subset.       *)
(***************************************************************************)
JSONDecodeError == [ok |-> FALSE, exc |-> "JSONDecodeError"]
JsonSpace == {" ", "\t", "\n", "\r"}
JsonControl == {"\t", "\n", "\r", "\f"}
EmptyDict == [k \in {} |-> PyNone]

SkipWs(s, i) == SpanIn(s, i, JsonSpace) + 1

\* a string literal at i
JsonString(s, i) ==
  LET e == SpanNotIn(s, i + 1, {"\"", "\\"} \cup JsonControl)
  IN  IF HasAt(s, i, "\"") /\ HasAt(s, e + 1, "\"")
      THEN [ok |-> TRUE, v |-> SubSeq(s, i + 1, e), next |-> e + 2]
      ELSE JSONDecodeError

\* a value at i
JsonValue(s, i) ==
  LET neg == HasAt(s, i, "-")
      b == IF neg THEN i + 1 ELSE i
      e == IF HasAt(s, b, "0") THEN b ELSE SpanIn(s, b, Digit)
      n == ToInt(SubSeq(s, b, e))
  IN  IF HasAt(s, i, "\"")
      THEN (IF JsonString(s, i).ok
            THEN [ok |-> TRUE, v |-> PyStr(JsonString(s, i).v),
                  next |-> JsonString(s, i).next]
            ELSE JSONDecodeError)
      ELSE IF HasAt(s, i, "true") THEN [ok |-> TRUE, v |-> PyBool(TRUE), next |-> i + 4]
      ELSE IF HasAt(s, i, "false") THEN [ok |-> TRUE, v |-> PyBool(FALSE), next |-> i + 5]
      ELSE IF HasAt(s, i, "null") THEN [ok |-> TRUE, v |-> PyNone, next |-> i + 4]
      ELSE IF e >= b /\ ~One(s, e + 1, {".", "e", "E"})
           THEN (IF ExceedsLimit(SubSeq(s, b, e)) THEN IntLimitError
                 ELSE [ok |-> TRUE, v |-> PyInt(IF neg THEN 0 - n ELSE n),
                       next |-> e + 1])
           ELSE JSONDecodeError

\* the members of an object from the key at i on; d holds the members read
\* so far (a repeated key keeps its last value)
RECURSIVE JsonMembers(_, _, _)
JsonMembers(s, i, d) ==
  LET key == JsonString(s, i)
      c == SkipWs(s, key.next)
      val == JsonValue(s, SkipWs(s, c + 1))
      a == SkipWs(s, val.next)
      d2 == (key.v :> val.v) @@ d
  IN  IF ~key.ok \/ ~HasAt(s, c, ":") THEN JSONDecodeError
      ELSE IF ~val.ok THEN val
      ELSE IF HasAt(s, a, ",") THEN JsonMembers(s, SkipWs(s, a + 1), d2)
      ELSE IF HasAt(s, a, "}") /\ SkipWs(s, a + 1) > Len(s)
           THEN [ok |-> TRUE, v |-> d2]
           ELSE JSONDecodeError

json_loads(s) ==
  LET i == SkipWs(s, 2)
  IN  IF ~HasAt(s, 1, "{") THEN JSONDecodeError
      ELSE IF HasAt(s, i, "}")
           THEN (IF SkipWs(s, i + 1) > Len(s)
                 THEN [ok |-> TRUE, v |-> EmptyDict] ELSE JSONDecodeError)
           ELSE JsonMembers(s, i, EmptyDict)

(***************************************************************************)
(* LogParser: the five extractors and parse_line. A record is a dict; the  *)
(* return value None is NoRecord; a call that ends with an exception       *)
(* instead of a value is Raised(exc).                                      *)
(***************************************************************************)
NoRecord == [none |-> TRUE]
Raised(exc) == [raised |-> exc]
IsRaised(r) == "raised" \in DOMAIN r

\* the ValueError of int(), with its str(e)
IntLimitMessage == "Exceeds the limit (4300 digits) for integer string conversion"
IntLimitRaised == Raised([type |-> "ValueError", message |-> IntLimitMessage])

\* lines 182-193 for the matches of the timestamp and level patterns
GenericRecord(timestamp_match, level_match, line, line_num) ==
  [line_number |-> PyInt(line_num),
   timestamp |-> IF timestamp_match.matched
                 THEN PyStr(timestamp_match.groups[1]) ELSE PyNone,
   level |-> IF level_match.matched
             THEN PyStr(Upper(level_match.groups[1])) ELSE PyStr("INFO"),
   message |-> PyStr(line),
   raw_line |-> PyStr(line),
   format |-> PyStr("generic")]

_parse_generic_line(line, line_num) ==
  GenericRecord(PatternTimestamp(line), PatternLevelSearch(line), line, line_num)

\* lines 102-113: the record of the decoded object data, or otherwise when
\* json.loads raises JSONDecodeError; another exception leaves the call
JsonRecord(data, line, line_num, otherwise) ==
  IF data.ok
  THEN [line_number |-> PyInt(line_num),
        timestamp |-> Or(Or(Get(data.v, "timestamp"), Get(data.v, "time")),
                         Get(data.v, "@timestamp")),
        level |-> Or(Or(Get(data.v, "level"), Get(data.v, "severity")),
                     PyStr("INFO")),
        message |-> Or(Or(Get(data.v, "message"), Get(data.v, "msg")),
                       PyStr(line)),
        service |-> Or(Get(data.v, "service"), Get(data.v, "app")),
        raw_line |-> PyStr(line),
        format |-> PyStr("json")]
  ELSE IF data = JSONDecodeError THEN otherwise
  ELSE IntLimitRaised

_parse_json_line_strict(line, line_num) ==
  JsonRecord(json_loads(line), line, line_num, NoRecord)
_parse_json_line(line, line_num) ==
  JsonRecord(json_loads(line), line, line_num, _parse_generic_line(line, line_num))

\* str.split(): the whitespace-separated words of s
RECURSIVE Split(_)
Split(s) ==
  LET t == LStrip(s)
      e == SpanNotIn(t, 1, Space)
  IN  IF t = "" THEN <<>>
      ELSE <<SubSeq(t, 1, e)>> \o Split(SubSeq(t, e + 1, Len(t)))

\* lines 121-136 for the words request_parts of the request
ApacheFields(match, request_parts, line, line_num, current_year) ==
  [line_number |-> PyInt(line_num),
   timestamp |-> PyStr(_parse_timestamp(match.groups[2], current_year)),
   ip_address |-> PyStr(match.groups[1]),
   method |-> PyStr(IF Len(request_parts) > 0 THEN request_parts[1] ELSE ""),
   url |-> PyStr(IF Len(request_parts) > 1 THEN request_parts[2] ELSE ""),
   status_code |-> PyInt(IF IsDigitStr(match.groups[4])
                         THEN ToInt(match.groups[4]) ELSE 0),
   response_size |-> PyInt(IF IsDigitStr(match.groups[5])
                           THEN ToInt(match.groups[5]) ELSE 0),
   raw_line |-> PyStr(line),
   format |-> PyStr("apache")]

\* lines 117-137 for the match of the apache pattern
ApacheRecord(match, line, line_num, current_year) ==
  IF ~match.matched THEN NoRecord
  ELSE IF \/ IsDigitStr(match.groups[4]) /\ ExceedsLimit(match.groups[4])
          \/ IsDigitStr(match.groups[5]) /\ ExceedsLimit(match.groups[5])
       THEN IntLimitRaised
  ELSE ApacheFields(match, Split(match.groups[3]), line, line_num, current_year)

_parse_apache_line(line, line_num, current_year) ==
  ApacheRecord(PatternApache(line), line, line_num, current_year)

\* lines 141-153 for the match of the apache_error pattern
ApacheErrorRecord(match, line, line_num, current_year) ==
  IF match.matched
  THEN [line_number |-> PyInt(line_num),
        timestamp |-> PyStr(_parse_timestamp(match.groups[1], current_year)),
        level |-> PyStr(Upper(match.groups[2])),
        message |-> PyStr(match.groups[3]),
        raw_line |-> PyStr(line),
        format |-> PyStr("apache_error")]
  ELSE NoRecord

_parse_apache_error_line(line, line_num, current_year) ==
  ApacheErrorRecord(PatternApacheError(line), line, line_num, current_year)

\* lines 159-174 for the level found in the message
SyslogFields(match, level_match, line, line_num, current_year) ==
  [line_number |-> PyInt(line_num),
   timestamp |-> PyStr(_parse_timestamp(match.groups[1], current_year)),
   hostname |-> PyStr(match.groups[2]),
   service |-> PyStr(match.groups[3]),
   level |-> IF level_match.matched
             THEN PyStr(Upper(level_match.groups[1])) ELSE PyStr("INFO"),
   message |-> PyStr(match.groups[4]),
   raw_line |-> PyStr(line),
   format |-> PyStr("syslog")]

\* lines 157-175 for the match of the syslog pattern
SyslogRecord(match, line, line_num, current_year) ==
  IF match.matched
  THEN SyslogFields(match, PatternLevelSearch(match.groups[4]), line, line_num,
                    current_year)
  ELSE NoRecord

_parse_syslog_line(line, line_num, current_year) ==
  SyslogRecord(PatternSyslog(line), line, line_num, current_year)

parse_line_apache_first(line, line_num, current_year) ==
  IF PatternApache(line).matched
  THEN _parse_apache_line(line, line_num, current_year)
  ELSE IF PatternJson(line).matched THEN _parse_json_line(line, line_num)
  ELSE IF PatternApacheError(line).matched
       THEN _parse_apache_error_line(line, line_num, current_year)
  ELSE IF PatternSyslog(line).matched
       THEN _parse_syslog_line(line, line_num, current_year)
  ELSE _parse_generic_line(line, line_num)
parse_line(line, line_num, current_year) ==
  IF PatternJson(line).matched THEN _parse_json_line(line, line_num)
  ELSE IF PatternApacheError(line).matched
       THEN _parse_apache_error_line(line, line_num, current_year)
  ELSE IF PatternApache(line).matched
       THEN _parse_apache_line(line, line_num, current_year)
  ELSE IF PatternSyslog(line).matched
       THEN _parse_syslog_line(line, line_num, current_year)
  ELSE _parse_generic_line(line, line_num)

(***************************************************************************)
(* State                                                                   *)
(***************************************************************************)
VARIABLES
  pc,              \* where the current call stands
  current_year,    \* datetime.now().year, read by _parse_timestamp
  line,            \* parse_line: the line argument
  line_num,        \* parse_line: the line_num argument
  parsed_entry,    \* parse_line: the value returned
  file_path,       \* parse_file: the file_path argument
  source,          \* parse_file: "local", "remote" (supabase://) or "missing"
  content,         \* parse_file: the text of the file, split at "\n"
  max_lines,       \* parse_file: the max_lines argument
  sample_rate,     \* parse_file: the sample_rate argument, in percent
  lines,           \* parse_file: the lines the loop enumerates
  idx,             \* parse_file: the loop's position (line_num of enumerate)
  parsed_logs,     \* parse_file: the list of records built so far
  lines_processed, \* parse_file: the counter checked against max_lines
  logs,            \* detect_anomalies: the logs argument
  anomalies,       \* detect_anomalies: the list of findings built so far
  error            \* the exception that ended the call ("" when none)

vars == <<pc, current_year, line, line_num, parsed_entry, file_path, source, content,
          max_lines, sample_rate, lines, idx, parsed_logs, lines_processed,
          logs, anomalies, error>>

lineVars == <<line, line_num, parsed_entry>>
fileArgs == <<file_path, source, content, max_lines, sample_rate>>
fileVars == <<lines, idx, parsed_logs, lines_processed>>
detectVars == <<logs, anomalies>>

\* the years the clock is drawn from: a leap year and a common year
CurrentYears == {2024, 2025}

(***************************************************************************)
(* The lines the inputs are drawn from                                     *)
(***************************************************************************)
LineCorpus ==
  { "",
    "   ",
    " \t ",
    "   \n\t  ",
    "{}",
    "{\"timestamp\": \"2024-01-15T10:30:00Z\", \"level\": \"ERROR\", \"message\": \"Database error\", \"service\": \"api\"}",
    "{\"time\": \"2024-01-15 03:30:00\", \"severity\": \"warn\", \"msg\": \"slow\", \"app\": \"web\"}",
    "{\"timestamp\": \"2024-01-15T10:30:00\", \"level\": 3, \"message\": \"x\"}",
    "{\"level\": \"ERROR\", \"message\": 17}",
    "{\"level\": \"notice\", \"service\": \"api\"}",
    "{\"level\": \"\", \"severity\": \"FATAL\", \"message\": \"\", \"msg\": \"m\"}",
    "{\"level\": \"ERROR\", \"message\": \"unterminated}",
    "{not json}",
    "{\"ip\":1} - - [15/Jan/2024:10:30:00 +0000] \"GET / HTTP/1.1\" 200 5 }",
    "192.168.1.100 - - [15/Jan/2024:10:30:00 +0000] \"GET /api/users HTTP/1.1\" 200 1234",
    "10.0.0.1 - - [15/Jan/2024:11:30:00] \"GET / HTTP/1.1\" 500 -",
    "10.0.0.1 - - [yesterday] \"\" 404 0",
    "10.0.0.2 - - [15/Jan/2024:10:30:00 +0000] \"GET\" 301 0",
    "192.168.1.100 - - [15/Jan/2024:10:30:00 +0000] \"GET /api/users HTTP/1.1\" 200 1234 \"-\" \"Mozilla/5.0\"",
    "[Thu Jun 09 06:07:04 2005] [error] File does not exist",
    "[Thu Jun 09 06:07:04 2005] [notice] Apache configured",
    "[15/Jan/2024:02:30:00 +0100] [ERROR] [client 1.2.3.4] denied",
    "Jan 15 10:30:00 server01 sshd[1234]: Failed password for user admin",
    "Jan 15 10:30:00 server01 sshd: Failed password for admin",
    "Feb 29 23:30:00 server01 kernel: warning: disk error",
    "2024-01-15 10:30:00 [INFO] Application started",
    "2024-01-15 10:30:01 [ERROR] Database connection failed",
    "2024-01-15 10:30:02 [WARNING] High memory usage detected",
    "2024-01-15T22:30:00Z [FATAL] out of memory",
    "2024-01-15 10:30:03 [WARN] Test message",
    "2024-01-15 10:30:04 [DEBUG] Test message",
    "2024-13-45 10:30:00 [CRITICAL] bad date",
    "Invalid timestamp [INFO] Some message",
    "plain text without keywords" }

\* s written n times
RECURSIVE Repeat(_, _)
Repeat(s, n) ==
  IF n = 0 THEN ""
  ELSE IF n % 2 = 1 THEN s \o Repeat(s, n - 1)
  ELSE Repeat(s \o s, n \div 2)

\* one digit more than int() converts
LongDigits == Repeat("9", int_max_str_digits + 1)

\* lines with an integer field of that size: an access-log line, a JSON
\* object, and a JSON-shaped line that is no JSON
LongApacheLine == "10.0.0.1 - - [15/Jan/2024:11:30:00] \"GET / HTTP/1.1\" 200 " \o LongDigits
LongJsonLine == "{\"level\": \"ERROR\", \"count\": " \o LongDigits \o "}"
LongBrokenJsonLine == "{\"count\": " \o LongDigits \o ", oops}"
LongLines == {LongApacheLine, LongJsonLine, LongBrokenJsonLine}

\* a blank line: empty, or nothing but whitespace
IsBlank(s) == Strip(s) = ""

(***************************************************************************)
(* parse_line, called on its own                                           *)
(***************************************************************************)
InitLine ==
  /\ pc = "parse_line"
  /\ current_year \in CurrentYears
  /\ line \in LineCorpus \cup LongLines
  /\ line_num \in 1..MaxLineNum
  /\ parsed_entry = NoRecord
  /\ file_path = "" /\ source = "local"
  /\ content = <<>> /\ max_lines = 0 /\ sample_rate = 100
  /\ lines = <<>> /\ idx = 1 /\ parsed_logs = <<>> /\ lines_processed = 0
  /\ logs = <<>> /\ anomalies = <<>>
  /\ error = ""

\* the call returns r, or ends with the exception r stands for
LineResult(r) ==
  IF IsRaised(r)
  THEN pc' = "raised" /\ error' = r.raised.type /\ parsed_entry' = parsed_entry
  ELSE pc' = "returned" /\ error' = error /\ parsed_entry' = r

ParseLine ==
  /\ pc = "parse_line"
  /\ LineResult(parse_line(line, line_num, current_year))
  /\ UNCHANGED <<current_year, line, line_num, fileArgs, fileVars, detectVars>>

NextLine == ParseLine

SpecLine == InitLine /\ [][NextLine]_vars

(***************************************************************************)
(* _parse_timestamp on its own                                             *)
(***************************************************************************)
\* timestamp strings <<text, kind, rendering>>: kind "year" for a text one of
\* formats_with_year parses, with its ISO rendering; "yearless" for a text
\* one of formats_without_year parses, with its rendering after the year;
\* "none" for a text no format parses: no layout at all, a date that does
\* not exist (30 February, 29 February 2023, hour 24, second 60), or the
\* 29th of February without a year, which no year-less format parses
\* because strptime reads it in its default year 1900
TimestampExamples ==
  {
    <<"15/Jan/2024:10:30:00 +0000", "year", "2024-01-15T10:30:00+00:00">>,
    <<"15/Jan/2024:10:30:00 -0530", "year", "2024-01-15T10:30:00-05:30">>,
    <<"29/Feb/2024:23:59:59 +0100", "year", "2024-02-29T23:59:59+01:00">>,
    <<"15/Jan/2024:10:30:00", "year", "2024-01-15T10:30:00">>,
    <<"29/Feb/2023:10:30:00", "none", "">>,
    <<"Thu Jun 09 06:07:04 2005", "year", "2005-06-09T06:07:04">>,
    <<"Mon Jan 15 10:30:00 2024", "year", "2024-01-15T10:30:00">>,
    <<"2024-01-15 10:30:00", "year", "2024-01-15T10:30:00">>,
    <<"2024-01-15T10:30:00", "year", "2024-01-15T10:30:00">>,
    <<"2024-02-30 10:30:00", "none", "">>,
    <<"2024-01-15 24:00:00", "none", "">>,
    <<"2024-01-15T10:30:00.123456Z", "year", "2024-01-15T10:30:00.123456">>,
    <<"2024-01-15T10:30:00.5Z", "year", "2024-01-15T10:30:00.500000">>,
    <<"2024-01-15T10:30:00Z", "none", "">>,
    <<"2024-01-15T10:30:00.123456", "none", "">>,
    <<"2024-01-15 10:30", "none", "">>,
    <<"Jun 09 06:07:04", "yearless", "-06-09T06:07:04">>,
    <<"Jan 15 10:30:00", "yearless", "-01-15T10:30:00">>,
    <<"Jan  5 06:07:04", "yearless", "-01-05T06:07:04">>,
    <<"Dec 31 23:59:59", "yearless", "-12-31T23:59:59">>,
    <<"Feb 28 23:30:00", "yearless", "-02-28T23:30:00">>,
    <<"Feb 29 23:30:00", "none", "">>,
    <<"Thu Jun 09 06:07:04", "yearless", "-06-09T06:07:04">>,
    <<"Mon Jan 15 10:30:00", "yearless", "-01-15T10:30:00">>,
    <<"Sun Feb 29 01:02:03", "none", "">>,
    <<"jan 15 10:30:00", "yearless", "-01-15T10:30:00">>,
    <<"Jan 15 10:30:60", "none", "">>,
    <<"yesterday", "none", "">>,
    <<"", "none", "">>,
    <<" 2024-01-15 10:30:00", "none", "">>,
    <<"2024-01-15 10:30:00 ", "none", "">>,
    <<"15/Jan/2024:10:30:00 UTC", "none", "">>,
    <<"1705314600", "none", "">> }

\* call: the argument is held in line, the value returned in parsed_entry
InitTimestamp ==
  /\ pc = "_parse_timestamp"
  /\ current_year \in CurrentYears
  /\ line \in {e[1] : e \in TimestampExamples}
  /\ line_num = 1 /\ parsed_entry = NoRecord
  /\ file_path = "" /\ source = "local"
  /\ content = <<>> /\ max_lines = 0 /\ sample_rate = 100
  /\ lines = <<>> /\ idx = 1 /\ parsed_logs = <<>> /\ lines_processed = 0
  /\ logs = <<>> /\ anomalies = <<>>
  /\ error = ""

ParseTimestamp ==
  /\ pc = "_parse_timestamp"
  /\ parsed_entry' = PyStr(_parse_timestamp(line, current_year))
  /\ pc' = "returned"
  /\ UNCHANGED <<current_year, line, line_num, fileArgs, fileVars, detectVars, error>>

NextTimestamp == ParseTimestamp

SpecTimestamp == InitTimestamp /\ [][NextTimestamp]_vars

(***************************************************************************)
(* parse_file                                                              *)
(* content is the text of the file split at "\n" (so a text that ends with *)
(* a newline has "" as its last element). A local file is iterated line by *)
(* line, which yields the same elements without that last "".              *)
(***************************************************************************)
\* the lines the files are made of
FileAlphabet ==
  { "",
    "  \t",
    "  plain text without keywords\t",
    "2024-01-15 10:30:01 [ERROR] Database connection failed" }

\* the paths the files are asked for under: a local file and a storage
\* object that exist, and one of each kind that does not
Paths(src) ==
  CASE src = "local" -> {"/var/log/app.log"}
    [] src = "remote" -> {"supabase://logs/app.log"}
    [] src = "missing" -> {"/nonexistent/file.log", "supabase://logs/gone.log"}

\* file_path.startswith('supabase://')
IsSupabase(path) == HasAt(path, 1, "supabase://")

\* line 81: the message of the exception parse_file raises for the cause e
ErrorParsingFile(path, e) == "Error parsing file " \o path \o ": " \o e

\* str(e) when the source cannot be had: line 33, or open() at line 60
SourceUnavailable(path) ==
  IF IsSupabase(path) THEN "Could not retrieve file from Supabase storage: " \o path
  ELSE "[Errno 2] No such file or directory: '" \o path \o "'"

\* the sequences over S of length 1..n
SeqsUpTo(S, n) == UNION {[1..k -> S] : k \in 1..n}

SampleRates == {50, 100}

\* for line in file
FileIter(text) ==
  IF Len(text) > 0 /\ text[Len(text)] = "" THEN SubSeq(text, 1, Len(text) - 1)
  ELSE text

\* [lines[i] for i in sorted(S)]
RECURSIVE PickFrom(_, _, _)
PickFrom(sq, S, i) ==
  IF i > Len(sq) THEN <<>>
  ELSE (IF i \in S THEN <<sq[i]>> ELSE <<>>) \o PickFrom(sq, S, i + 1)

\* random.sample(range(total_lines), int(total_lines * sample_rate)): the
\* index sets it can return
SampledIndices(total_lines, rate) ==
  {S \in SUBSET (1..total_lines) : Cardinality(S) = (total_lines * rate) \div 100}

\* the index sets the remote branch may keep
RemoteChoices ==
  IF sample_rate < 100 /\ Len(content) > max_lines
  THEN SampledIndices(Len(content), sample_rate)
  ELSE {1..Len(content)}

\* random.random() > sample_rate: the outcomes of the test on a local line
SkipChoices == IF sample_rate < 100 THEN {TRUE, FALSE} ELSE {FALSE}

InitFile ==
  /\ pc = "parse_file"
  /\ current_year \in CurrentYears
  /\ line = "" /\ line_num = 1 /\ parsed_entry = NoRecord
  /\ source \in {"local", "remote", "missing"}
  /\ file_path \in Paths(source)
  /\ content \in SeqsUpTo(FileAlphabet, MaxFileLen)
  /\ max_lines \in 0..MaxCap
  /\ sample_rate \in SampleRates
  /\ lines = <<>> /\ idx = 1 /\ parsed_logs = <<>> /\ lines_processed = 0
  /\ logs = <<>> /\ anomalies = <<>>
  /\ error = ""

\* lines 23-46 and 58-61: open the source, or fail
ParseFileOpen ==
  /\ pc = "parse_file"
  /\ parsed_logs' = <<>>
  /\ lines_processed' = 0
  /\ idx' = 1
  /\ IF source = "missing"
     THEN /\ pc' = "raised"
          /\ error' = ErrorParsingFile(file_path, SourceUnavailable(file_path))
          /\ lines' = lines
     ELSE /\ pc' = "loop"
          /\ error' = error
          /\ \E S \in (IF IsSupabase(file_path) THEN RemoteChoices ELSE {{}}) :
               lines' = IF IsSupabase(file_path) THEN PickFrom(content, S, 1)
                        ELSE FileIter(content)
  /\ UNCHANGED <<current_year, lineVars, fileArgs, detectVars>>

\* lines 47 and 62: if lines_processed >= max_lines: break
CapReachedOff(processed, cap) == processed > cap
CapReached(processed, cap) == processed >= cap

\* lines 54-57 and 75-78 for the result r of parse_line; an exception is
\* caught at line 80 and raised again at line 81
LoopResult(r) ==
  IF IsRaised(r)
  THEN /\ pc' = "raised"
       /\ error' = ErrorParsingFile(file_path, r.raised.message)
       /\ UNCHANGED <<parsed_entry, parsed_logs, lines_processed>>
  ELSE /\ pc' = "loop"
       /\ error' = error
       /\ parsed_entry' = r
       /\ IF r # NoRecord
          THEN /\ parsed_logs' = Append(parsed_logs, r)
               /\ lines_processed' = lines_processed + 1
          ELSE UNCHANGED <<parsed_logs, lines_processed>>

\* lines 46-57 and 61-78: one turn of the loop
ParseFileIter ==
  /\ pc = "loop"
  /\ IF idx > Len(lines) \/ CapReached(lines_processed, max_lines)
     THEN /\ pc' = "return"
          /\ UNCHANGED <<lineVars, idx, parsed_logs, lines_processed, error>>
     ELSE /\ idx' = idx + 1
          /\ line' = Strip(lines[idx])
          /\ line_num' = idx
          /\ IF line' = ""
             THEN /\ pc' = "loop"
                  /\ UNCHANGED <<parsed_entry, parsed_logs, lines_processed, error>>
             ELSE \E skip \in (IF IsSupabase(file_path) THEN {FALSE} ELSE SkipChoices) :
                    IF skip
                    THEN /\ pc' = "loop"
                         /\ UNCHANGED <<parsed_entry, parsed_logs, lines_processed, error>>
                    ELSE LoopResult(parse_line(line', idx, current_year))
  /\ UNCHANGED <<current_year, fileArgs, lines, detectVars>>

\* line 83: return parsed_logs
ParseFileReturn ==
  /\ pc = "return"
  /\ pc' = "parsed"
  /\ logs' = parsed_logs
  /\ UNCHANGED <<current_year, lineVars, fileArgs, fileVars, anomalies, error>>

NextFile == ParseFileOpen \/ ParseFileIter \/ ParseFileReturn

SpecFile == InitFile /\ [][NextFile]_vars

(***************************************************************************)
(* parse_file on files that hold a line with an oversized integer field    *)
(***************************************************************************)
\* the longest such file, in lines
MaxLongFileLen == 2

LongFileAlphabet ==
  {"", "2024-01-15 10:30:01 [ERROR] Database connection failed", "{not json}"}
    \cup LongLines

InitFileLong ==
  /\ pc = "parse_file"
  /\ current_year \in CurrentYears
  /\ line = "" /\ line_num = 1 /\ parsed_entry = NoRecord
  /\ source \in {"local", "remote", "missing"}
  /\ file_path \in Paths(source)
  /\ content \in SeqsUpTo(LongFileAlphabet, MaxLongFileLen)
  /\ max_lines \in 0..MaxCap
  /\ sample_rate \in SampleRates
  /\ lines = <<>> /\ idx = 1 /\ parsed_logs = <<>> /\ lines_processed = 0
  /\ logs = <<>> /\ anomalies = <<>>
  /\ error = ""

SpecFileLong == InitFileLong /\ [][NextFile]_vars

(***************************************************************************)
(* datetime.fromisoformat, for the calendar-date spellings YYYY-MM-DD and  *)
(* YYYYMMDD, an optional time HH[:MM[:SS[.f+]]] after one separator        *)
(* character, and an optional UTC offset [+-]HH[:MM[:SS]]. Week dates      *)
(* (YYYY-Www-D) and offsets with a fraction are reported as ValueError by  *)
(* the model; the timestamps of the corpus have neither.                   *)
(***************************************************************************)
\* str.replace(a, b) for a one-character a
RECURSIVE Replace(_, _, _)
Replace(s, a, b) ==
  IF s = "" THEN ""
  ELSE (IF Head(s) = a THEN b ELSE Head(s)) \o Replace(Tail(s), a, b)

\* position of the first character of s that lies in cls (0: none)
FirstIn(s, cls) ==
  LET e == SpanNotIn(s, 1, cls) IN IF e = Len(s) THEN 0 ELSE e + 1

\* parse_hh_mm_ss_ff: the fraction that starts at p
HMSFraction(t, after, p, vals) ==
  LET to_parse == Min(6, Len(t) + 1 - p)
      q == SpanIn(t, p + to_parse, Digit) + 1
  IN  IF ~DigitsAt(t, p, to_parse) THEN ValueError
      ELSE [ok |-> TRUE, vals |-> vals,
            us |-> ToInt(RPad6(SubSeq(t, p, p + to_parse - 1))),
            rest |-> q <= Len(t) \/ after # ""]

\* parse_hh_mm_ss_ff: HH[:?MM[:?SS]] from component i (0, 1, 2) at p on.
\* t is the text to read and `after` the character that follows it ("" at
\* the end of the string); `rest` tells that text remains after the value.
RECURSIVE HMSLoop(_, _, _, _, _, _)
HMSLoop(t, after, i, p, has_separator, vals) ==
  LET c == IF p + 2 <= Len(t) THEN Ch(t, p + 2) ELSE after
      hs == IF i = 0 THEN c = ":" ELSE has_separator
      vals2 == Append(vals, ToInt(SubSeq(t, p, p + 1)))
  IN  IF ~DigitsAt(t, p, 2) THEN ValueError
      ELSE IF p + 3 > Len(t)
           THEN [ok |-> TRUE, vals |-> vals2, us |-> 0, rest |-> c # ""]
      ELSE IF hs /\ c = ":"
           THEN (IF i < 2 THEN HMSLoop(t, after, i + 1, p + 3, hs, vals2)
                 ELSE HMSFraction(t, after, p + 3, vals2))
      ELSE IF c \in {".", ","} THEN HMSFraction(t, after, p + 3, vals2)
      ELSE IF ~hs
           THEN (IF i < 2 THEN HMSLoop(t, after, i + 1, p + 2, hs, vals2)
                 ELSE HMSFraction(t, after, p + 2, vals2))
      ELSE ValueError

\* the components read by the loop r; those not written stay 0
HMSResult(r) ==
  IF r.ok
  THEN [ok |-> TRUE, h |-> (r.vals \o <<0, 0>>)[1], m |-> (r.vals \o <<0, 0>>)[2],
        s |-> (r.vals \o <<0, 0>>)[3], us |-> r.us, rest |-> r.rest]
  ELSE ValueError

ParseHMS(t, after) == HMSResult(HMSLoop(t, after, 0, 1, TRUE, <<>>))

\* parse_isoformat_time for the time tm read before position tz_pos and the
\* offset tz of secs seconds read after it
IsoTimeResult(tstr, tz_pos, tm, tz, secs) ==
  IF ~tm.ok THEN ValueError
  ELSE IF tz_pos = 0
       THEN (IF tm.rest THEN ValueError
             ELSE [ok |-> TRUE, tm |-> tm, aware |-> FALSE, offset |-> 0])
  ELSE IF Ch(tstr, tz_pos) = "Z"
       THEN (IF tz_pos # Len(tstr) THEN ValueError
             ELSE [ok |-> TRUE, tm |-> tm, aware |-> TRUE, offset |-> 0])
  ELSE IF ~tz.ok THEN ValueError
  ELSE IF tz.rest \/ tz.us # 0 \/ secs >= 86400 THEN ValueError
  ELSE [ok |-> TRUE, tm |-> tm, aware |-> TRUE,
        offset |-> IF Ch(tstr, tz_pos) = "-" THEN 0 - secs ELSE secs]

\* parse_isoformat_time with the offset starting at tz_pos (0: no offset)
IsoTimeAt(tstr, tz_pos, tz) ==
  IsoTimeResult(tstr, tz_pos,
                ParseHMS(IF tz_pos > 0 THEN SubSeq(tstr, 1, tz_pos - 1) ELSE tstr,
                         IF tz_pos > 0 THEN Ch(tstr, tz_pos) ELSE ""),
                tz, 3600 * tz.h + 60 * tz.m + tz.s)

\* parse_isoformat_time: the time of day and the offset
ParseIsoTime(tstr) ==
  IsoTimeAt(tstr, FirstIn(tstr, {"Z", "+", "-"}),
            ParseHMS(SubSeq(tstr, FirstIn(tstr, {"Z", "+", "-"}) + 1, Len(tstr)), ""))

\* the datetime of a date and the time tc, or ValueError when they name none
IsoDatetime(year, month, day, tc) ==
  IF year < 1 \/ month \notin 1..12 \/ day < 1 THEN ValueError
  ELSE IF day > DaysInMonth(year, month) \/ ~tc.ok THEN ValueError
  ELSE IF tc.tm.h > 23 \/ tc.tm.m > 59 \/ tc.tm.s > 59 THEN ValueError
  ELSE [ok |-> TRUE,
        dt |-> [year |-> year, month |-> month, day |-> day,
                hour |-> tc.tm.h, minute |-> tc.tm.m, second |-> tc.tm.s,
                microsecond |-> tc.tm.us,
                aware |-> tc.aware, offset |-> tc.offset]]

\* datetime.fromisoformat for a date written with (w = 1) or without
\* (w = 0) separators
IsoParse(date_string, w) ==
  IF Len(date_string) < 8 + 2 * w THEN ValueError
  ELSE IF ~(/\ DigitsAt(date_string, 1, 4)
            /\ DigitsAt(date_string, 5 + w, 2)
            /\ (w = 1 => HasAt(date_string, 8, "-"))
            /\ DigitsAt(date_string, 7 + 2 * w, 2)) THEN ValueError
  ELSE IsoDatetime(ToInt(SubSeq(date_string, 1, 4)),
                   ToInt(SubSeq(date_string, 5 + w, 6 + w)),
                   ToInt(SubSeq(date_string, 7 + 2 * w, 8 + 2 * w)),
                   IF Len(date_string) = 8 + 2 * w
                   THEN [ok |-> TRUE, tm |-> [h |-> 0, m |-> 0, s |-> 0, us |-> 0],
                         aware |-> FALSE, offset |-> 0]
                   ELSE ParseIsoTime(SubSeq(date_string, 10 + 2 * w, Len(date_string))))

fromisoformat(date_string) ==
  IsoParse(date_string, IF HasAt(date_string, 5, "-") THEN 1 ELSE 0)

(***************************************************************************)
(* AnomalyDetector: what the detectors share                               *)
(***************************************************************************)
\* a call that ended with an exception
Raise(exc) == [ok |-> FALSE, exc |-> exc]
Return(v) == [ok |-> TRUE, v |-> v]

\* the strptime formats the detectors fall back to
detector_formats ==
  << <<"%Y", "-", "%m", "-", "%d", " ", "%H", ":", "%M", ":", "%S">>,
     <<"%Y", "-", "%m", "-", "%d", "T", "%H", ":", "%M", ":", "%S">> >>

\* lines 45-62 (and 148-164, 200-216): the datetime a detector reads from a
\* record, or ValueError when the record is skipped
TimestampDatetime(timestamp) ==
  IF ~Truthy(timestamp) \/ ~IsStr(timestamp) THEN ValueError
  ELSE OrElse(fromisoformat(Replace(timestamp.v, "Z", "+00:00")),
              FirstParse(timestamp.v, detector_formats, 1))

LogDatetime(log) == TimestampDatetime(Get(log, "timestamp"))

ErrorLevels == {"ERROR", "CRITICAL", "FATAL"}

\* log.get('level', '').upper() in ['ERROR', 'CRITICAL', 'FATAL']
IsErrorLevel(log) ==
  LET level == GetDefault(log, "level", PyStr(""))
  IN  IF IsStr(level) THEN Return(Upper(level.v) \in ErrorLevels)
      ELSE Raise("AttributeError")

\* days from 0001-01-01 to the date of dt
DaysBeforeYear(y) == 365 * (y - 1) + (y - 1) \div 4 - (y - 1) \div 100 + (y - 1) \div 400
RECURSIVE DaysBeforeMonth(_, _)
DaysBeforeMonth(y, m) ==
  IF m <= 1 THEN 0 ELSE DaysBeforeMonth(y, m - 1) + DaysInMonth(y, m - 1)
Ordinal(dt) == DaysBeforeYear(dt.year) + DaysBeforeMonth(dt.year, dt.month) + dt.day

\* the instant of dt as <<day, second of the day, microsecond>>, in UTC for
\* an aware value
Instant(dt) ==
  LET secs == 3600 * dt.hour + 60 * dt.minute + dt.second - dt.offset + 86400
  IN  <<Ordinal(dt) - 1 + secs \div 86400, secs % 86400, dt.microsecond>>

\* datetime.__eq__ and __hash__ as a dict applies them: two keys are the same
\* key exactly when these values are equal (an aware and a naive value never
\* are)
DictKey(dt) == <<dt.aware, Instant(dt)>>

\* datetime.__lt__ for two values that are both aware or both naive
InstantLess(x, y) ==
  \/ x[1] < y[1]
  \/ x[1] = y[1] /\ x[2] < y[2]
  \/ x[1] = y[1] /\ x[2] = y[2] /\ x[3] < y[3]
DtLess(a, b) == InstantLess(Instant(a), Instant(b))

\* the sequence sq with every element evaluated
Listed(sq) == Tail(<<0>> \o sq)

\* the members of a set S of indices within 1..n, in ascending order
Ascending(S, n) ==
  LET rank == Listed([i \in 1..n |-> Cardinality({j \in S : j < i})])
  IN  Listed([k \in 1..Cardinality(S) |-> CHOOSE i \in S : rank[i] = k - 1])

\* the indices at which a dict gains a key, when the records at the indices
\* in counted store under the keys ids[i] in turn
FirstOccurrences(ids, counted) ==
  {i \in counted : \A j \in counted : j < i => ids[j] # ids[i]}

\* two defaultdict(int) keyed by datetime after one pass over the records:
\* record i of counted adds 1 to the total of key[i], and to its errors when
\* is_error[i]; the entries in insertion order
Buckets(key, counted, is_error) ==
  LET n == Len(key)
      id == Listed([i \in 1..n |-> IF i \in counted THEN DictKey(key[i]) ELSE <<>>])
      first == Ascending(FirstOccurrences(id, counted), n)
      entry(i) ==
        [key |-> key[i],
         total |-> Cardinality({j \in counted : id[j] = id[i]}),
         errors |-> Cardinality({j \in counted : id[j] = id[i] /\ is_error[j]})]
  IN  Listed([k \in 1..Len(first) |-> entry(first[k])])

\* sorted(d.keys()): the entries in ascending key order
RECURSIVE SortBuckets(_)
SortBuckets(buckets) ==
  IF Len(buckets) <= 1 THEN buckets
  ELSE LET m == CHOOSE k \in 1..Len(buckets) :
                  \A j \in 1..Len(buckets) : j = k \/ DtLess(buckets[k].key, buckets[j].key)
           rest == [j \in 1..(Len(buckets) - 1) |->
                      IF j < m THEN buckets[j] ELSE buckets[j + 1]]
       IN  <<buckets[m]>> \o SortBuckets(rest)

\* sorted() compares an aware key with a naive one
MixedKeys(buckets) ==
  \E j, k \in 1..Len(buckets) : buckets[j].key.aware # buckets[k].key.aware

RECURSIVE Gcd(_, _)
Gcd(a, b) == IF b = 0 THEN a ELSE Gcd(b, a % b)
Lcm(a, b) == (a \div Gcd(a, b)) * b

RECURSIVE SumSeq(_)
SumSeq(sq) == IF sq = <<>> THEN 0 ELSE Head(sq) + SumSeq(Tail(sq))

\* a rational number, and the square root of one
Rat(n, d) == [num |-> n, den |-> d]
SqrtOf(n, d) == [sqrt_of |-> Rat(n, d)]

(***************************************************************************)
(* statistics.mean and statistics.stdev over the values xs[k] / scale:     *)
(* with n = Len(xs) and S their sum,                                       *)
(*   Dev(xs, k) = n * xs[k] - S      is  n * scale * (value - mean)        *)
(*   SqDev(xs)  = sum of Dev squared is  n^2 * scale^2 * (n-1) * variance  *)
(* so   |value - mean| > c * stdev   iff  (n-1) * Dev^2 > c^2 * SqDev.     *)
(***************************************************************************)
Dev(xs, k) == Len(xs) * xs[k] - SumSeq(xs)
SqDev(xs) == SumSeq([k \in 1..Len(xs) |-> Dev(xs, k) * Dev(xs, k)])
\* stdev > 0
StdPositive(xs) == Len(xs) > 1 /\ SqDev(xs) > 0
\* abs(value - mean) > stdev, whatever c is
FarFromMeanByOne(xs, k, c) ==
  (Len(xs) - 1) * Dev(xs, k) * Dev(xs, k) > SqDev(xs)
\* abs(value - mean) > c * stdev
FarFromMeanUnsquared(xs, k, c) ==
  (Len(xs) - 1) * Dev(xs, k) * Dev(xs, k) > c * SqDev(xs)
FarFromMean(xs, k, c) ==
  (Len(xs) - 1) * Dev(xs, k) * Dev(xs, k) > c * c * SqDev(xs)
\* value > mean + c * stdev
AboveMeanEitherSide(xs, k, c) == FarFromMean(xs, k, c)
AboveMean(xs, k, c) == Dev(xs, k) > 0 /\ FarFromMean(xs, k, c)

(***************************************************************************)
(* AnomalyDetector._detect_error_spikes                                    *)
(***************************************************************************)
\* dt.replace(minute=0, second=0, microsecond=0)
HourKey(dt) == [dt EXCEPT !.minute = 0, !.second = 0, !.microsecond = 0]

\* lines 44-71: hourly_total and hourly_errors after the loop
\* d[i] is the datetime read from record i and lv[i] the test of its level
HourlyCount(d, lv) ==
  IF \E i \in DOMAIN d : d[i].ok /\ ~lv[i].ok THEN Raise("AttributeError")
  ELSE Return(Buckets(
         Listed([i \in DOMAIN d |-> IF d[i].ok THEN HourKey(d[i].dt) ELSE ValueError]),
         {i \in DOMAIN d : d[i].ok},
         Listed([i \in DOMAIN d |-> lv[i].ok /\ lv[i].v])))

HourlyBuckets(logs_) ==
  HourlyCount(Listed([i \in 1..Len(logs_) |-> LogDatetime(logs_[i])]),
              Listed([i \in 1..Len(logs_) |-> IsErrorLevel(logs_[i])]))

\* lines 73-97
ErrorSpikeFindings(error_rates) ==
  LET n == Len(error_rates)
      scale == IF n = 0 THEN 1
               ELSE LET F[k \in 1..n] ==
                          IF k = 1 THEN error_rates[1].total
                          ELSE Lcm(F[k - 1], error_rates[k].total)
                    IN  F[n]
      rates == [k \in 1..n |-> error_rates[k].errors * (scale \div error_rates[k].total)]
      flagged(k) == StdPositive(rates) /\ FarFromMean(rates, k, 2)
      finding(k) ==
        [type |-> "error_spike",
         severity |-> IF AboveMean(rates, k, 3) THEN "high" ELSE "medium",
         timestamp |-> IsoFormat(error_rates[k].key),
         description |-> [text |-> "Error rate spike: {rate:.2%} vs normal {mean_rate:.2%}",
                          rate |-> Rat(error_rates[k].errors, error_rates[k].total),
                          mean_rate |-> Rat(SumSeq(rates), n * scale)],
         details |-> [current_rate |-> Rat(error_rates[k].errors, error_rates[k].total),
                      normal_rate |-> Rat(SumSeq(rates), n * scale),
                      deviation |-> SqrtOf((n - 1) * Dev(rates, k) * Dev(rates, k),
                                           SqDev(rates))]]
      F2[k \in 0..n] ==
        IF k = 0 THEN <<>>
        ELSE F2[k - 1] \o (IF flagged(k) THEN <<finding(k)>> ELSE <<>>)
  IN  IF n > 1 THEN F2[n] ELSE <<>>

\* lines 73-99 for the dicts b of the loop, or the exception the loop raised
ErrorSpikesOf(b) ==
  IF ~b.ok THEN b
  ELSE IF MixedKeys(b.v) THEN Raise("TypeError")
  ELSE Return(ErrorSpikeFindings(SortBuckets(b.v)))

_detect_error_spikes(logs_) == ErrorSpikesOf(HourlyBuckets(logs_))

(***************************************************************************)
(* AnomalyDetector._detect_unusual_patterns                                *)
(***************************************************************************)
\* re.sub(r'^\d{4}-\d{2}-\d{2}[T\s]\d{2}:\d{2}:\d{2}\s*', '', message)
StripTimestampPrefix(message) ==
  IF PatternTimestamp(message).matched
  THEN SubSeq(message, SpanIn(message, 20, Space) + 1, Len(message))
  ELSE message

\* re.sub(r'^(ERROR|CRITICAL|FATAL)\s*', '', message, flags=re.IGNORECASE)
StripLevelPrefix(message) ==
  LET u == Upper(message)
      n == IF HasAt(u, 1, "ERROR") THEN 5
           ELSE IF HasAt(u, 1, "CRITICAL") THEN 8
           ELSE IF HasAt(u, 1, "FATAL") THEN 5 ELSE 0
  IN  IF n = 0 THEN message
      ELSE SubSeq(message, SpanIn(message, n + 1, Space) + 1, Len(message))

\* lines 106-118: error_messages after the loop, or the exception of the
\* first record the loop cannot read
ErrorMessages(logs_) ==
  LET n == Len(logs_)
      lv == Listed([i \in 1..n |-> IsErrorLevel(logs_[i])])
      message(i) == GetDefault(logs_[i], "message", PyStr(""))
      bad == {i \in 1..n : ~lv[i].ok \/ (lv[i].v /\ ~IsStr(message(i)))}
      cleaned_message ==
        Listed([i \in 1..n |->
                  IF lv[i].ok /\ lv[i].v /\ IsStr(message(i))
                  THEN Strip(StripLevelPrefix(StripTimestampPrefix(message(i).v)))
                  ELSE ""])
      kept == Ascending({i \in 1..n : cleaned_message[i] # ""}, n)
  IN  IF bad # {}
      THEN LET i == CHOOSE b \in bad : \A j \in bad : b <= j
           IN  IF lv[i].ok THEN Raise("TypeError") ELSE lv[i]
      ELSE Return(Listed([k \in 1..Len(kept) |-> cleaned_message[kept[k]]]))

\* Counter(error_messages): the distinct messages in order of first
\* appearance, each with its count
Counter(msgs) ==
  LET n == Len(msgs)
      first == Ascending(FirstOccurrences(msgs, 1..n), n)
  IN  Listed([k \in 1..Len(first) |->
                [message |-> msgs[first[k]],
                 count |-> Cardinality({j \in 1..n : msgs[j] = msgs[first[k]]})]])

\* Counter.most_common(n): the n largest counts, the earlier entry first
\* among equal counts
RECURSIVE MostCommon(_, _)
MostCommon(c, n) ==
  IF n = 0 \/ c = <<>> THEN <<>>
  ELSE LET m == CHOOSE k \in 1..Len(c) :
                  /\ \A j \in 1..Len(c) : c[j].count <= c[k].count
                  /\ \A j \in 1..(k - 1) : c[j].count < c[k].count
           rest == [j \in 1..(Len(c) - 1) |-> IF j < m THEN c[j] ELSE c[j + 1]]
       IN  <<c[m]>> \o MostCommon(rest, n - 1)

\* lines 120-136
PatternFindings(error_messages) ==
  LET total_errors == Len(error_messages)
      top == MostCommon(Counter(error_messages), 5)
      flagged(k) == top[k].count >= 3 /\ 10 * top[k].count > 3 * total_errors
      finding(k) ==
        [type |-> "unusual_pattern",
         severity |-> "medium",
         description |-> [text |-> "Repeated error pattern: \"{message[:100]}\"",
                          message |-> top[k].message],
         details |-> [message |-> top[k].message,
                      count |-> top[k].count,
                      percentage |-> Rat(top[k].count, total_errors)]]
      F[k \in 0..Len(top)] ==
        IF k = 0 THEN <<>>
        ELSE F[k - 1] \o (IF flagged(k) THEN <<finding(k)>> ELSE <<>>)
  IN  IF total_errors >= 3 THEN F[Len(top)] ELSE <<>>

\* lines 120-138 for the messages m of the loop, or the exception it raised
PatternsOf(m) == IF m.ok THEN Return(PatternFindings(m.v)) ELSE m

_detect_unusual_patterns(logs_) == PatternsOf(ErrorMessages(logs_))

(***************************************************************************)
(* AnomalyDetector._detect_frequency_anomalies                             *)
(***************************************************************************)
\* dt.replace(second=0, microsecond=0)
MinuteKeyHourly(dt) == [dt EXCEPT !.minute = 0, !.second = 0, !.microsecond = 0]
MinuteKey(dt) == [dt EXCEPT !.second = 0, !.microsecond = 0]

\* lines 147-169: minute_counts after the loop
\* d[i] is the datetime read from record i
MinuteCount(d) ==
  Buckets(Listed([i \in DOMAIN d |-> IF d[i].ok THEN MinuteKey(d[i].dt) ELSE ValueError]),
          {i \in DOMAIN d : d[i].ok}, [i \in DOMAIN d |-> FALSE])

MinuteBuckets(logs_) ==
  MinuteCount(Listed([i \in 1..Len(logs_) |-> LogDatetime(logs_[i])]))

\* lines 171-188
FrequencyFindings(minute_counts) ==
  LET n == Len(minute_counts)
      counts == [k \in 1..n |-> minute_counts[k].total]
      flagged(k) == StdPositive(counts) /\ AboveMean(counts, k, 2)
      finding(k) ==
        [type |-> "frequency_anomaly",
         severity |-> "medium",
         timestamp |-> IsoFormat(minute_counts[k].key),
         description |-> [text |-> "High log volume: {count} logs vs normal {mean_count:.1f}",
                          count |-> counts[k],
                          mean_count |-> Rat(SumSeq(counts), n)],
         details |-> [current_count |-> counts[k],
                      normal_count |-> Rat(SumSeq(counts), n),
                      deviation |-> SqrtOf((n - 1) * Dev(counts, k) * Dev(counts, k),
                                           SqDev(counts))]]
      F[k \in 0..n] ==
        IF k = 0 THEN <<>>
        ELSE F[k - 1] \o (IF flagged(k) THEN <<finding(k)>> ELSE <<>>)
  IN  F[n]

_detect_frequency_anomalies(logs_) ==
  Return(FrequencyFindings(MinuteBuckets(logs_)))

(***************************************************************************)
(* AnomalyDetector._detect_time_anomalies                                  *)
(***************************************************************************)
\* range(9, 18)
business_hours_through_18 == 9..18
business_hours == 9..17

\* lines 199-232: one finding for each error record outside business hours
TimeFindingsOf(logs_, d, lv) ==
  LET n == Len(logs_)
      outside == {i \in 1..n : d[i].ok /\ d[i].dt.hour \notin business_hours}
      found == Ascending({i \in outside : lv[i].ok /\ lv[i].v}, n)
      finding(i) ==
        [type |-> "time_anomaly",
         severity |-> "low",
         timestamp |-> logs_[i].timestamp.v,
         description |-> [text |-> "Error outside business hours: {hour:02d}:00",
                          hour |-> d[i].dt.hour],
         details |-> [hour |-> d[i].dt.hour,
                      business_hours |-> [k \in 1..9 |-> 8 + k]]]
  IN  IF \E i \in outside : ~lv[i].ok THEN Raise("AttributeError")
      ELSE Return(Listed([k \in 1..Len(found) |-> finding(found[k])]))

\* d[i] is the datetime read from record i and lv[i] the test of its level
TimeFindings(logs_) ==
  TimeFindingsOf(logs_,
                 Listed([i \in 1..Len(logs_) |-> LogDatetime(logs_[i])]),
                 Listed([i \in 1..Len(logs_) |-> IsErrorLevel(logs_[i])]))

\* the findings r with another severity
WithSeverity(r, severity) ==
  IF r.ok THEN Return([k \in 1..Len(r.v) |-> [r.v[k] EXCEPT !.severity = severity]])
  ELSE r

_detect_time_anomalies_info(logs_) == WithSeverity(TimeFindings(logs_), "info")
_detect_time_anomalies(logs_) == TimeFindings(logs_)

(***************************************************************************)
(* AnomalyDetector._detect_ip_anomalies                                    *)
(***************************************************************************)
\* the records tagged apache
IsApache(log) == Get(log, "format") = PyStr("apache")

\* lines 243-247: the keys of ip_activity in insertion order
IpKeys(logs_) ==
  LET n == Len(logs_)
      ip == Listed([i \in 1..n |-> Get(logs_[i], "ip_address")])
      counted == {i \in 1..n : IsApache(logs_[i]) /\ Truthy(ip[i])}
      first == Ascending(FirstOccurrences(ip, counted), n)
  IN  Listed([k \in 1..Len(first) |-> ip[first[k]]])

\* ip_activity[ip]
IpLogs(logs_, ip) ==
  {k \in 1..Len(logs_) : IsApache(logs_[k]) /\ Get(logs_[k], "ip_address") = ip}

\* the request-count and error-rate thresholds of lines 251 and 255
IpRequestThreshold == 100

\* lines 251 and 255: len(ip_logs) > 100 and error_rate > 0.5
IpFlaggedAtHalf(total, error_count) ==
  total > IpRequestThreshold /\ 2 * error_count >= total
IpFlagged(total, error_count) ==
  total > IpRequestThreshold /\ 2 * error_count > total

\* lines 250-266
IpFindings(logs_, keys) ==
  LET ip_logs(k) == IpLogs(logs_, keys[k])
      total(k) == Cardinality(ip_logs(k))
      error_count(k) ==
        Cardinality({j \in ip_logs(k) : GetDefault(logs_[j], "status_code", PyInt(0)).v >= 400})
      flagged(k) == IpFlagged(total(k), error_count(k))
      finding(k) ==
        [type |-> "ip_anomaly",
         severity |-> "high",
         description |-> [text |-> "Suspicious IP activity: {ip}", ip |-> keys[k].v],
         details |-> [ip_address |-> keys[k].v,
                      total_requests |-> total(k),
                      error_rate |-> Rat(error_count(k), total(k)),
                      error_count |-> error_count(k)]]
      F[k \in 0..Len(keys)] ==
        IF k = 0 THEN <<>>
        ELSE F[k - 1] \o (IF flagged(k) THEN <<finding(k)>> ELSE <<>>)
  IN  F[Len(keys)]

\* a status_code that `>= 400` cannot be applied to (status codes are
\* integers or of another type; a bool is not modelled)
BadStatus(logs_, keys) ==
  \E k \in 1..Len(keys) :
    /\ Cardinality(IpLogs(logs_, keys[k])) > IpRequestThreshold
    /\ \E j \in IpLogs(logs_, keys[k]) :
         ~IsInt(GetDefault(logs_[j], "status_code", PyInt(0)))

_detect_ip_anomalies(logs_) ==
  LET keys == IpKeys(logs_)
  IN  IF BadStatus(logs_, keys) THEN Raise("TypeError")
      ELSE Return(IpFindings(logs_, keys))

(***************************************************************************)
(* AnomalyDetector._detect_status_anomalies                                *)
(***************************************************************************)
\* lines 277-281: the keys of status_counts in insertion order
StatusKeys(logs_) ==
  LET n == Len(logs_)
      status == Listed([i \in 1..n |-> Get(logs_[i], "status_code")])
      counted == {i \in 1..n : IsApache(logs_[i]) /\ Truthy(status[i])}
      first == Ascending(FirstOccurrences(status, counted), n)
  IN  Listed([k \in 1..Len(first) |-> status[first[k]]])

\* lines 284-301 with the share compared by >= instead of >
StatusFindingsAtLeast(logs_, keys) ==
  LET count(k) ==
        Cardinality({j \in 1..Len(logs_) :
                       IsApache(logs_[j]) /\ Get(logs_[j], "status_code") = keys[k]})
      total_requests == SumSeq([k \in 1..Len(keys) |-> count(k)])
      flagged(k) == keys[k].v >= 400 /\ 10 * count(k) >= total_requests
      finding(k) ==
        [type |-> "status_anomaly",
         severity |-> IF keys[k].v < 500 THEN "medium" ELSE "high",
         description |-> [text |-> "High rate of {status} status codes: {percentage:.1%}",
                          status |-> keys[k].v,
                          percentage |-> Rat(count(k), total_requests)],
         details |-> [status_code |-> keys[k].v,
                      count |-> count(k),
                      percentage |-> Rat(count(k), total_requests),
                      total_requests |-> total_requests]]
      F[k \in 0..Len(keys)] ==
        IF k = 0 THEN <<>>
        ELSE F[k - 1] \o (IF flagged(k) THEN <<finding(k)>> ELSE <<>>)
  IN  F[Len(keys)]

\* lines 284-301
StatusFindings(logs_, keys) ==
  LET count(k) ==
        Cardinality({j \in 1..Len(logs_) :
                       IsApache(logs_[j]) /\ Get(logs_[j], "status_code") = keys[k]})
      total_requests == SumSeq([k \in 1..Len(keys) |-> count(k)])
      flagged(k) == keys[k].v >= 400 /\ 10 * count(k) > total_requests
      finding(k) ==
        [type |-> "status_anomaly",
         severity |-> IF keys[k].v < 500 THEN "medium" ELSE "high",
         description |-> [text |-> "High rate of {status} status codes: {percentage:.1%}",
                          status |-> keys[k].v,
                          percentage |-> Rat(count(k), total_requests)],
         details |-> [status_code |-> keys[k].v,
                      count |-> count(k),
                      percentage |-> Rat(count(k), total_requests),
                      total_requests |-> total_requests]]
      F[k \in 0..Len(keys)] ==
        IF k = 0 THEN <<>>
        ELSE F[k - 1] \o (IF flagged(k) THEN <<finding(k)>> ELSE <<>>)
  IN  F[Len(keys)]

_detect_status_anomalies(logs_) ==
  LET keys == StatusKeys(logs_)
  IN  IF \E k \in 1..Len(keys) : ~IsInt(keys[k]) THEN Raise("TypeError")
      ELSE Return(StatusFindings(logs_, keys))

(***************************************************************************)
(* AnomalyDetector.detect_anomalies                                        *)
(***************************************************************************)
\* lines 27-32: the order in which the detectors run
detector_order_swapped ==
  <<"error_spike", "unusual_pattern", "frequency_anomaly",
    "time_anomaly", "status_anomaly", "ip_anomaly">>
detector_order ==
  <<"error_spike", "unusual_pattern", "frequency_anomaly",
    "time_anomaly", "ip_anomaly", "status_anomaly">>

\* the step after detector name: the next detector, or the return
NextStep(name) ==
  LET k == CHOOSE j \in 1..Len(detector_order) : detector_order[j] = name
  IN  IF k < Len(detector_order) THEN detector_order[k + 1] ELSE "done"

\* lines 21-24
DetectStart ==
  /\ pc = "detect_anomalies"
  /\ anomalies' = <<>>
  /\ pc' = IF logs = <<>> THEN "done" ELSE detector_order[1]
  /\ UNCHANGED <<current_year, lineVars, fileArgs, fileVars, logs, error>>

\* anomalies.extend(r), or the exception of the detector leaves the call
Extend(name, r) ==
  /\ pc = name
  /\ IF r.ok
     THEN /\ anomalies' = anomalies \o r.v
          /\ pc' = NextStep(name)
          /\ error' = error
     ELSE /\ anomalies' = anomalies
          /\ pc' = "raised"
          /\ error' = r.exc
  /\ UNCHANGED <<current_year, lineVars, fileArgs, fileVars, logs>>

DetectErrorSpikes == Extend("error_spike", _detect_error_spikes(logs))
DetectUnusualPatterns == Extend("unusual_pattern", _detect_unusual_patterns(logs))
DetectFrequencyAnomalies == Extend("frequency_anomaly", _detect_frequency_anomalies(logs))
DetectTimeAnomalies == Extend("time_anomaly", _detect_time_anomalies(logs))
DetectIpAnomalies == Extend("ip_anomaly", _detect_ip_anomalies(logs))
DetectStatusAnomalies == Extend("status_anomaly", _detect_status_anomalies(logs))

Detect ==
  \/ DetectStart
  \/ DetectErrorSpikes
  \/ DetectUnusualPatterns
  \/ DetectFrequencyAnomalies
  \/ DetectTimeAnomalies
  \/ DetectIpAnomalies
  \/ DetectStatusAnomalies

(***************************************************************************)
(* routes/analysis.py, analyze_logs: parse the file, then detect           *)
(***************************************************************************)
AnalyzeMaxLines == 20000

AnalyzeAlphabet ==
  { "",
    "192.168.1.100 - - [15/Jan/2024:10:30:00 +0000] \"GET /api/users HTTP/1.1\" 200 1234",
    "2024-01-15 10:30:01 [ERROR] Database connection failed",
    "2024-01-15T22:30:00Z [FATAL] out of memory",
    "{\"timestamp\": \"2024-01-15T10:30:00\", \"level\": 3, \"message\": \"x\"}",
    "Jan 15 10:30:00 server01 sshd: Failed password for admin" }

InitAnalyze ==
  /\ pc = "parse_file"
  /\ current_year \in CurrentYears
  /\ line = "" /\ line_num = 1 /\ parsed_entry = NoRecord
  /\ source \in {"local", "remote", "missing"}
  /\ file_path \in Paths(source)
  /\ content \in SeqsUpTo(AnalyzeAlphabet, MaxFileLen)
  /\ max_lines = AnalyzeMaxLines
  /\ sample_rate = 100
  /\ lines = <<>> /\ idx = 1 /\ parsed_logs = <<>> /\ lines_processed = 0
  /\ logs = <<>> /\ anomalies = <<>>
  /\ error = ""

\* lines 31-35: detector.detect_anomalies(parsed_logs)
AnalyzeDetect ==
  /\ pc = "parsed"
  /\ pc' = "detect_anomalies"
  /\ UNCHANGED <<current_year, lineVars, fileArgs, fileVars, detectVars, error>>

NextAnalyze == NextFile \/ AnalyzeDetect \/ Detect

SpecAnalyze == InitAnalyze /\ [][NextAnalyze]_vars

(***************************************************************************)
(* detect_anomalies on record lists built as tests/test_anomalies.py       *)
(* builds them                                                             *)
(***************************************************************************)
MaxBucket == 2
MaxOther == 2

GenericLog(timestamp, level, message) ==
  [timestamp |-> PyStr(timestamp), level |-> PyStr(level),
   message |-> PyStr(message), format |-> PyStr("generic")]

ApacheLog(timestamp, ip_address, method, status_code) ==
  [timestamp |-> PyStr(timestamp), ip_address |-> PyStr(ip_address),
   method |-> PyStr(method), url |-> PyStr("/api/users"),
   status_code |-> PyInt(status_code), format |-> PyStr("apache")]

\* tests/test_anomalies.py, fixture sample_logs
sample_logs ==
  << GenericLog("2024-01-15T10:00:00Z", "INFO", "Application started"),
     GenericLog("2024-01-15T10:01:00Z", "ERROR", "Database connection failed"),
     GenericLog("2024-01-15T10:02:00Z", "ERROR", "Database connection failed"),
     GenericLog("2024-01-15T10:03:00Z", "INFO", "User login successful"),
     GenericLog("2024-01-15T10:04:00Z", "ERROR", "Database connection failed") >>

\* tests/test_anomalies.py, fixture apache_logs
apache_logs ==
  << ApacheLog("2024-01-15T10:00:00Z", "192.168.1.100", "GET", 200),
     ApacheLog("2024-01-15T10:01:00Z", "192.168.1.100", "GET", 404),
     ApacheLog("2024-01-15T10:02:00Z", "192.168.1.100", "POST", 500),
     ApacheLog("2024-01-15T10:03:00Z", "192.168.1.101", "GET", 200) >>

\* tests/test_anomalies.py, test_edge_case_invalid_timestamps
invalid_logs ==
  << GenericLog("invalid-timestamp", "ERROR", "Test error"),
     [level |-> PyStr("INFO"), message |-> PyStr("No timestamp")] >>

\* the hours of the ten buckets
SpikeHours == 8..17

\* the records of one hourly bucket: errors ERROR records, the rest INFO
HourLogs(hour, total, errors) ==
  [k \in 1..total |->
     IF k <= errors
     THEN GenericLog("2024-01-15T" \o Pad2(hour) \o ":30:00Z", "ERROR",
                     "Database connection failed")
     ELSE GenericLog("2024-01-15T" \o Pad2(hour) \o ":30:00Z", "INFO",
                     "Request served")]

\* ten consecutive hourly buckets, from hour on: the one at hour spike holds
\* 10 * mult records of which 9 * mult are errors, every other bucket holds
\* size records and no error
RECURSIVE ScenarioDFrom(_, _, _, _)
ScenarioDFrom(spike, size, mult, hour) ==
  IF hour \notin SpikeHours THEN <<>>
  ELSE (IF hour = spike THEN HourLogs(hour, 10 * mult, 9 * mult)
        ELSE HourLogs(hour, size, 0))
       \o ScenarioDFrom(spike, size, mult, hour + 1)
ScenarioD(spike, size, mult) == ScenarioDFrom(spike, size, mult, 8)

\* n apache records of 10.0.0.1 of which e have status 500, and m records of
\* 10.0.0.2 that all have status 500
ScenarioE(n, e, m) ==
  [k \in 1..n |-> ApacheLog("2024-01-15T10:00:00Z", "10.0.0.1", "GET",
                            IF k <= e THEN 500 ELSE 200)]
  \o [k \in 1..m |-> ApacheLog("2024-01-15T10:00:00Z", "10.0.0.2", "GET", 500)]

\* hourly buckets from midnight on: the k-th bucket holds profile[k][1]
\* records of which profile[k][2] are errors
RECURSIVE ProfileFrom(_, _)
ProfileFrom(profile, k) ==
  IF k > Len(profile) THEN <<>>
  ELSE HourLogs(k - 1, profile[k][1], profile[k][2]) \o ProfileFrom(profile, k + 1)
ProfileLogs(profile) == ProfileFrom(profile, 1)

\* n buckets of one record each without an error
Quiet(n) == [k \in 1..n |-> <<1, 0>>]
\* n buckets of one record each, an error
Failing(n) == [k \in 1..n |-> <<1, 1>>]

\* error-rate profiles: equal rates, 2 to 12 buckets with one failing hour,
\* one quiet hour among failing ones, two failing hours, unequal bucket sizes
HourProfiles ==
  { <<<<2, 1>>, <<2, 1>>, <<2, 1>>>>,
    <<<<1, 1>>, <<3, 0>>>>,
    <<<<2, 1>>, <<3, 1>>, <<1, 0>>, <<2, 2>>>>,
    Quiet(10) \o <<<<1, 1>>, <<1, 1>>>>,
    <<<<3, 3>>>> \o Quiet(5) \o <<<<2, 1>>>> }
  \cup {Quiet(n) \o <<<<1, 1>>>> : n \in 1..11}
  \cup {<<<<1, 0>>>> \o Failing(n) : n \in {4, 5, 9, 10, 11}}

\* the prefixes a message may carry in front of its text: a timestamp, a
\* date, a level keyword
MessagePrefixes ==
  {"", "ERROR ", "2024-01-15 10:30:00 ", "2024-01-15T10:30:00 FATAL ",
   "2024-01-15 10:30:00 error ", "2024-01-01 ERROR "}

\* three ERROR records whose messages are text behind the prefixes p, q, r
PrefixedLogs(p, q, r, text) ==
  << GenericLog("2024-01-15T10:00:00Z", "ERROR", p \o text),
     GenericLog("2024-01-15T10:01:00Z", "ERROR", q \o text),
     GenericLog("2024-01-15T10:02:00Z", "ERROR", r \o text) >>

PrefixInputs ==
  {PrefixedLogs("ERROR ", q, r, "disk full") : q, r \in MessagePrefixes}

\* a records 'disk full' and b records 'timeout', all ERROR, then e ERROR
\* records with an empty message and one INFO record
RepeatedLogs(a, b, e) ==
  [k \in 1..(a + b + e + 1) |->
     GenericLog("2024-01-15T10:00:00Z",
                IF k <= a + b + e THEN "ERROR" ELSE "INFO",
                IF k <= a THEN "disk full"
                ELSE IF k <= a + b THEN "timeout"
                ELSE IF k <= a + b + e THEN "" ELSE "disk full")]

PatternInputs ==
  {RepeatedLogs(a, b, e) : a \in {2, 3, 4}, b \in {0, 3, 7}, e \in {0, 7}}

\* INFO records in the minutes from 10:00 on, counts[k] of them in the k-th
RECURSIVE MinutesFrom(_, _)
MinutesFrom(counts, k) ==
  IF k > Len(counts) THEN <<>>
  ELSE [j \in 1..counts[k] |->
          GenericLog("2024-01-15T10:" \o Pad2(k - 1) \o ":00Z", "INFO", "Request served")]
       \o MinutesFrom(counts, k + 1)
MinuteLogs(counts) == MinutesFrom(counts, 1)

\* per-minute counts: one minute, equal minutes, a burst among 4 and among 5
\* to 7 quiet minutes, a slack minute among busy ones, two bursts, a burst
\* among unequal minutes
MinuteProfiles ==
  { <<5>>, <<2, 2, 2>>, <<1, 3>>,
    <<1, 1, 1, 1, 4>>, <<1, 1, 1, 1, 1, 4>>, <<1, 1, 1, 1, 1, 1, 2>>,
    <<4, 1, 1, 1, 1, 1, 1, 1>>,
    <<3, 3, 3, 3, 3, 3, 1>>,
    <<1, 1, 1, 1, 1, 1, 1, 1, 1, 1, 5, 5>>,
    <<1, 2, 1, 2, 1, 2, 1, 9>> }

\* records around the edges of the business hours: an error and a plain
\* record in each of the hours, a lower-case level, a timestamp that cannot
\* be read
EdgeHours == <<8, 9, 17, 18, 23, 0>>
TimeLogs(level) ==
  [k \in 1..(2 * Len(EdgeHours)) |->
     GenericLog("2024-01-15T" \o Pad2(EdgeHours[(k + 1) \div 2]) \o ":15:00Z",
                IF k % 2 = 1 THEN level ELSE "INFO",
                IF k % 2 = 1 THEN "Database connection failed" ELSE "Request served")]
  \o << GenericLog("invalid-timestamp", level, "Test error") >>

TimeInputs == {TimeLogs(level) : level \in {"ERROR", "CRITICAL", "fatal", "WARNING"}}

\* apache records by status: profile[k][2] records of status profile[k][1],
\* in the order of the profile
RECURSIVE StatusFrom(_, _)
StatusFrom(profile, k) ==
  IF k > Len(profile) THEN <<>>
  ELSE [j \in 1..profile[k][2] |->
          ApacheLog("2024-01-15T10:00:00Z", "10.0.0.1", "GET", profile[k][1])]
       \o StatusFrom(profile, k + 1)
StatusLogs(profile) == StatusFrom(profile, 1)

\* shares of exactly 10%, just above and just below it, statuses on both
\* sides of 400 and of 500, and records of status 0
StatusProfiles ==
  { << <<200, 9>>, <<500, 1>> >>,
    << <<200, 18>>, <<404, 2>> >>,
    << <<200, 27>>, <<503, 3>> >>,
    << <<200, 26>>, <<503, 3>> >>,
    << <<200, 28>>, <<503, 3>> >>,
    << <<200, 8>>, <<500, 2>> >>,
    << <<200, 8>>, <<0, 1>>, <<500, 1>> >>,
    << <<200, 9>>, <<399, 1>>, <<400, 2>> >>,
    << <<200, 7>>, <<404, 2>>, <<500, 1>> >>,
    << <<499, 2>>, <<200, 7>>, <<500, 2>> >>,
    << <<500, 3>> >>,
    << <<0, 2>> >>,
    << <<301, 5>>, <<200, 5>> >> }

IpCounts == {99, 100, 101, 102, 150}
IpErrors(n) == {n \div 2 - 1, n \div 2, n \div 2 + 1, n} \cup (IF n = 150 THEN {80} ELSE {})

DetectInputs ==
  {<<>>, sample_logs, apache_logs, invalid_logs}
  \cup UNION {{ScenarioD(spike, size, mult) : spike \in SpikeHours, size \in 1..MaxBucket} :
              mult \in 1..MaxBucket}
  \cup UNION {{ScenarioE(n, e, m) : e \in IpErrors(n), m \in 0..MaxOther} : n \in IpCounts}
  \cup {ScenarioD(spike, 1, 1) \o ScenarioE(150, 80, m) :
          spike \in {8, 12}, m \in 0..MaxOther}
  \cup {ProfileLogs(profile) : profile \in HourProfiles}
  \cup PrefixInputs
  \cup PatternInputs
  \cup {MinuteLogs(counts) : counts \in MinuteProfiles}
  \cup TimeInputs
  \cup {StatusLogs(profile) : profile \in StatusProfiles}

InitDetect ==
  /\ pc = "detect_anomalies"
  /\ current_year \in CurrentYears
  /\ line = "" /\ line_num = 1 /\ parsed_entry = NoRecord
  /\ file_path = "" /\ source = "local"
  /\ content = <<>> /\ max_lines = 0 /\ sample_rate = 100
  /\ lines = <<>> /\ idx = 1 /\ parsed_logs = <<>> /\ lines_processed = 0
  /\ logs \in DetectInputs
  /\ anomalies = <<>>
  /\ error = ""

NextDetect == Detect

SpecDetect == InitDetect /\ [][NextDetect]_vars

(***************************************************************************)
(* Properties                                                              *)
(***************************************************************************)
\* C1: parse_line returns None when the line is empty or consists only of
\* whitespace.
C1_BlankLineIsAbsent ==
  pc = "returned" /\ IsBlank(line) => parsed_entry = NoRecord

\* C2: for every non-blank line and every line number n, parse_line returns
\* a record, never None and never an exception, whose format is one of
\* apache, apache_error, syslog, json, generic and whose line_number is n.
C2_NonBlankLineIsRecord ==
  pc \in {"returned", "raised"} /\ ~IsBlank(line)
    => /\ pc = "returned"
       /\ parsed_entry # NoRecord
       /\ error = ""
       /\ parsed_entry.format \in
            {PyStr(f) : f \in {"apache", "apache_error", "syslog", "json", "generic"}}
       /\ parsed_entry.line_number = PyInt(line_num)

\* a malformed JSON line was parsed at a line number above 1
C2_Witness ==
  /\ pc = "returned"
  /\ line = "{not json}"
  /\ line_num > 1
  /\ parsed_entry.format = PyStr("generic")

\* the number of non-blank lines of the file
NonBlankLines == Cardinality({i \in 1..Len(content) : ~IsBlank(content[i])})

\* C3: with sample_rate 1.0 a readable file with N non-blank lines parses to
\* exactly min(N, max_lines) records, blank lines not counting toward the
\* cap, and the record list never holds more than max_lines records.
C3_CapInvariant ==
  /\ Len(parsed_logs) <= max_lines
  /\ pc = "parsed" /\ sample_rate = 100
       => Len(logs) = Min(NonBlankLines, max_lines)

\* a file with a blank line and more non-blank lines than the cap was parsed
C3_Witness ==
  /\ pc = "parsed"
  /\ sample_rate = 100
  /\ max_lines > 0
  /\ NonBlankLines > max_lines
  /\ \E i \in 1..Len(content) : i < Len(content) /\ IsBlank(content[i])
  /\ Len(logs) = max_lines

\* C4: every record parse_line produces carries a level that is one of
\* DEBUG, INFO, WARNING, WARN, ERROR, CRITICAL, FATAL.
C4_LevelOfEveryRecord ==
  pc = "returned" /\ parsed_entry # NoRecord
    => /\ "level" \in DOMAIN parsed_entry
       /\ parsed_entry.level \in
            {PyStr(l) : l \in {"DEBUG", "INFO", "WARNING", "WARN", "ERROR",
                               "CRITICAL", "FATAL"}}

\* C5: every record parse_line produces carries a message, which is the raw
\* line when the line has no structured message, apache records included.
C5_MessageOfEveryRecord ==
  pc = "returned" /\ parsed_entry # NoRecord
    => /\ "message" \in DOMAIN parsed_entry
       /\ IsStr(parsed_entry.message)
       /\ parsed_entry.format = PyStr("apache") => parsed_entry.message = PyStr(line)

\* C6: detect_anomalies raises no exception on any record sequence that
\* parse_file produced.
C6_DetectNeverFails ==
  pc = "raised" => source = "missing"

\* the six kinds of finding, in the order of the detectors
AnomalyTypes ==
  <<"error_spike", "unusual_pattern", "frequency_anomaly",
    "time_anomaly", "ip_anomaly", "status_anomaly">>
Rank(type) == CHOOSE k \in 1..Len(AnomalyTypes) : AnomalyTypes[k] = type
OfType(found, type) == SelectSeq(found, LAMBDA a : a.type = type)

\* C7: detect_anomalies returns the empty sequence for empty input, and
\* otherwise the outputs of the six detectors concatenated in the order
\* error_spike, unusual_pattern, frequency_anomaly, time_anomaly, ip_anomaly,
\* status_anomaly: no finding of a later detector precedes one of an earlier.
C7_ConcatenationInOrder ==
  /\ \A i, j \in 1..Len(anomalies) :
       i < j => Rank(anomalies[i].type) <= Rank(anomalies[j].type)
  /\ pc = "done" /\ logs = <<>> => anomalies = <<>>
  /\ pc = "done" /\ logs # <<>>
       => anomalies = _detect_error_spikes(logs).v \o _detect_unusual_patterns(logs).v
                      \o _detect_frequency_anomalies(logs).v
                      \o _detect_time_anomalies(logs).v
                      \o _detect_ip_anomalies(logs).v
                      \o _detect_status_anomalies(logs).v

\* a call returned findings of all six kinds
C7_Witness ==
  /\ pc = "done"
  /\ \A k \in 1..Len(AnomalyTypes) : OfType(anomalies, AnomalyTypes[k]) # <<>>

\* C8: every finding has a severity among low, medium, high, a type among
\* the six kinds, and details that are a map.
C8_FindingShape ==
  \A k \in 1..Len(anomalies) :
    /\ anomalies[k].severity \in {"low", "medium", "high"}
    /\ \E t \in 1..Len(AnomalyTypes) : anomalies[k].type = AnomalyTypes[t]
    /\ "details" \in DOMAIN anomalies[k]
    /\ DOMAIN anomalies[k].details # {}

\* a call returned findings of each severity
C8_Witness ==
  /\ pc = "done"
  /\ \A sev \in {"low", "medium", "high"} :
       \E k \in 1..Len(anomalies) : anomalies[k].severity = sev

\* the error-spike findings for exactly the spike hour of Scenario D, with
\* the given severity
ScenarioDFinding(severity) ==
  \A spike \in SpikeHours, size \in 1..MaxBucket, mult \in 1..MaxBucket :
    pc = "done" /\ logs = ScenarioD(spike, size, mult)
      => LET found == OfType(anomalies, "error_spike")
         IN  /\ Len(found) = 1
             /\ found[1].timestamp = "2024-01-15T" \o Pad2(spike) \o ":00:00+00:00"
             /\ found[1].severity = severity

\* C9: on ten consecutive hourly buckets of which nine have a 0% error rate
\* and one a 90% error rate, the error-spike detector returns exactly one
\* finding, for that hour, with severity high.
C9_ScenarioDHigh == ScenarioDFinding("high")

\* C9 as amended: ... exactly one finding, for that hour, with severity
\* medium.
C9_ScenarioDMedium == ScenarioDFinding("medium")

\* Scenario D was analysed with the spike in the afternoon
C9_Witness ==
  /\ pc = "done"
  /\ \E size \in 1..MaxBucket, mult \in 1..MaxBucket : logs = ScenarioD(15, size, mult)
  /\ OfType(anomalies, "error_spike") # <<>>

\* the apache records of an IP, and those among them with status >= 400
RequestsOf(ip) ==
  {k \in 1..Len(logs) :
     /\ {"format", "ip_address"} \subseteq DOMAIN logs[k]
     /\ logs[k].format = PyStr("apache")
     /\ logs[k].ip_address = PyStr(ip)}
ErrorsOf(ip) == {k \in RequestsOf(ip) : logs[k].status_code.v >= 400}
IpsOf ==
  {logs[k].ip_address.v :
     k \in {j \in 1..Len(logs) : {"format", "ip_address"} \subseteq DOMAIN logs[j]
                                   /\ logs[j].format = PyStr("apache")}}

\* C10: an IP is flagged, with severity high and details carrying IP, total
\* requests, error rate and error count, exactly when it has more than 100
\* apache requests and more than half of them have status_code >= 400; 150
\* requests of which 80 have status 500 give one high finding for the IP.
C10_IpRule ==
  pc = "done"
    => /\ \A ip \in IpsOf :
            LET found == SelectSeq(OfType(anomalies, "ip_anomaly"),
                                   LAMBDA a : a.details.ip_address = ip)
                total == Cardinality(RequestsOf(ip))
                errors == Cardinality(ErrorsOf(ip))
            IN  IF total > 100 /\ 2 * errors > total
                THEN /\ Len(found) = 1
                     /\ found[1].severity = "high"
                     /\ found[1].details =
                          [ip_address |-> ip, total_requests |-> total,
                           error_rate |-> Rat(errors, total), error_count |-> errors]
                ELSE found = <<>>
       /\ \A k \in 1..Len(anomalies) :
            anomalies[k].type = "ip_anomaly" => anomalies[k].details.ip_address \in IpsOf
       /\ logs = ScenarioE(150, 80, 0)
            => /\ Len(OfType(anomalies, "ip_anomaly")) = 1
               /\ OfType(anomalies, "ip_anomaly")[1].severity = "high"
               /\ OfType(anomalies, "ip_anomaly")[1].details.ip_address = "10.0.0.1"

\* 150 requests of one IP, 80 of them errors, were analysed and flagged
C10_Witness ==
  /\ pc = "done"
  /\ logs = ScenarioE(150, 80, 0)
  /\ OfType(anomalies, "ip_anomaly") # <<>>

\* the level keywords of patterns['level']
LevelKeywords == {"ERROR", "WARN", "WARNING", "INFO", "DEBUG", "CRITICAL", "FATAL"}

\* s has the form '<timestamp> [L] <text>', the timestamp being one that
\* patterns['timestamp'] finds, with or without a 'Z' after it
TaggedWith(s, L) ==
  /\ PatternTimestamp(s).matched
  /\ \/ HasAt(s, 20, " [" \o L \o "] ")
     \/ HasAt(s, 20, "Z [" \o L \o "] ")

\* C11: a generic line '<timestamp> [L] <text>' with L one of the level
\* keywords parses to a record whose level is exactly L.
C11_LevelIsKeyword ==
  pc = "returned"
    => \A L \in LevelKeywords : TaggedWith(line, L) => parsed_entry.level = PyStr(L)

\* syslog lines '<Mon D HH:MM:SS> <host> <tag>: <msg>' by their parts
SyslogExamples ==
  { [timestamp |-> "Jan 15 10:30:00", host |-> "server01", tag |-> "sshd[1234]",
     msg |-> "Failed password for user admin"],
    [timestamp |-> "Jan 15 10:30:00", host |-> "server01", tag |-> "sshd",
     msg |-> "Failed password for admin"],
    [timestamp |-> "Feb 29 23:30:00", host |-> "server01", tag |-> "kernel",
     msg |-> "warning: disk error"] }

SyslogLine(e) == e.timestamp \o " " \o e.host \o " " \o e.tag \o ": " \o e.msg

\* the program name of a tag: the tag without a '[pid]' suffix
ProgramOf(tag) == SubSeq(tag, 1, SpanNotIn(tag, 1, {"["}))

\* a level keyword stands somewhere in msg, in either case
HasKeyword(msg) ==
  \E L \in LevelKeywords : \E i \in 1..Len(msg) : HasAt(Upper(msg), i, L)

\* C12: a syslog line parses to format syslog with the hostname, the
\* program name of the tag as service, the message, and level INFO when
\* the message holds no level keyword.
C12_SyslogFields ==
  pc = "returned"
    => \A e \in SyslogExamples :
         line = SyslogLine(e)
           => /\ parsed_entry.format = PyStr("syslog")
              /\ parsed_entry.hostname = PyStr(e.host)
              /\ parsed_entry.service = PyStr(ProgramOf(e.tag))
              /\ parsed_entry.message = PyStr(e.msg)
              /\ ~HasKeyword(e.msg) => parsed_entry.level = PyStr("INFO")

\* the timestamp a line starts with, as it stands in the line: the text
\* patterns['timestamp'] matches and the zone designator 'Z' after it
LeadingTimestamp(s) ==
  IF HasAt(s, 20, "Z") THEN SubSeq(s, 1, 20) ELSE SubSeq(s, 1, 19)

\* C13: a generic record holds the timestamp found at the start of its line
\* exactly as written, a trailing 'Z' included, and no timestamp when the
\* line starts with none.
C13_GenericTimestamp ==
  pc = "returned" /\ Get(parsed_entry, "format") = PyStr("generic")
    => parsed_entry.timestamp =
         IF PatternTimestamp(line).matched THEN PyStr(LeadingTimestamp(line))
         ELSE PyNone

\* C14: for the five records of the fixture sample_logs, which lie within
\* one hour and of which three are ERROR, the findings hold at least one
\* error_spike.
C14_SpikeInSampleLogs ==
  pc = "done" /\ logs = sample_logs => OfType(anomalies, "error_spike") # <<>>

\* the text t stands somewhere in s
Contains(s, t) == \E i \in 1..Len(s) : HasAt(s, i, t)

\* C15: parse_file fails only when its source cannot be had; it then raises
\* an error whose message holds the requested path, without having read a
\* line or returned a record list.
C15_OnlySourceUnavailableFails ==
  pc = "raised"
    => /\ source = "missing"
       /\ Contains(error, file_path)
       /\ lines = <<>> /\ parsed_logs = <<>> /\ logs = <<>>

\* the first format, in the order json, apache_error, apache, syslog,
\* generic, whose pattern the line matches
FirstMatch(s) ==
  IF PatternJson(s).matched THEN "json"
  ELSE IF PatternApacheError(s).matched THEN "apache_error"
  ELSE IF PatternApache(s).matched THEN "apache"
  ELSE IF PatternSyslog(s).matched THEN "syslog"
  ELSE "generic"

\* C16 as stated: every record is tagged with the first format whose pattern
\* its line matches, generic only when no earlier pattern matches.
C16_FirstMatchWins ==
  pc = "returned" => Get(parsed_entry, "format") = PyStr(FirstMatch(line))

\* the tag of a line whose first matching format is first and whose text
\* json.loads decodes to data
TagOf(first, data) ==
  IF first = "json" /\ data = JSONDecodeError THEN "generic" ELSE first

\* C16, amended: every record is tagged with the first format whose pattern
\* its line matches, except that a line which matches the json pattern and
\* is no JSON is tagged generic, whatever later pattern it matches.
C16_FirstMatchWinsOrDowngrade ==
  pc = "returned"
    => Get(parsed_entry, "format") = PyStr(TagOf(FirstMatch(line), json_loads(line)))

\* a line that matches the json and the apache pattern and is no JSON was
\* parsed, and tagged generic
C16_Witness ==
  /\ pc = "returned"
  /\ PatternJson(line).matched /\ PatternApache(line).matched
  /\ parsed_entry.format = PyStr("generic")

\* access-log lines '<ip> - - [<time>] "<request>" <status> <size><tail>' by
\* their parts, with the method, url, status and size they stand for
AccessExamples ==
  { [ip |-> "192.168.1.100", time |-> "15/Jan/2024:10:30:00 +0000",
     request |-> "GET /api/users HTTP/1.1", status |-> "200", size |-> "1234",
     tail |-> "", method |-> "GET", url |-> "/api/users",
     status_code |-> 200, response_size |-> 1234],
    [ip |-> "192.168.1.100", time |-> "15/Jan/2024:10:30:00 +0000",
     request |-> "GET /api/users HTTP/1.1", status |-> "200", size |-> "1234",
     tail |-> " \"-\" \"Mozilla/5.0\"", method |-> "GET", url |-> "/api/users",
     status_code |-> 200, response_size |-> 1234],
    [ip |-> "10.0.0.1", time |-> "15/Jan/2024:11:30:00",
     request |-> "GET / HTTP/1.1", status |-> "500", size |-> "-",
     tail |-> "", method |-> "GET", url |-> "/",
     status_code |-> 500, response_size |-> 0],
    [ip |-> "10.0.0.1", time |-> "yesterday",
     request |-> "", status |-> "404", size |-> "0",
     tail |-> "", method |-> "", url |-> "",
     status_code |-> 404, response_size |-> 0],
    [ip |-> "10.0.0.2", time |-> "15/Jan/2024:10:30:00 +0000",
     request |-> "GET", status |-> "301", size |-> "0",
     tail |-> "", method |-> "GET", url |-> "",
     status_code |-> 301, response_size |-> 0] }

AccessLine(e) ==
  e.ip \o " - - [" \o e.time \o "] \"" \o e.request \o "\" " \o e.status
       \o " " \o e.size \o e.tail

\* the record of the access-log line e: tagged apache, with the client IP,
\* the method and url of the request, the integer status and the size
IsAccessRecord(r, e) ==
  /\ Get(r, "format") = PyStr("apache")
  /\ Get(r, "ip_address") = PyStr(e.ip)
  /\ Get(r, "method") = PyStr(e.method)
  /\ Get(r, "url") = PyStr(e.url)
  /\ Get(r, "status_code") = PyInt(e.status_code)
  /\ Get(r, "response_size") = PyInt(e.response_size)

\* C17 as stated: an access-log line that ends with its response-size field
\* parses to an apache record with its ip, method, url, status and size
\* ('-' as 0, missing request parts as ""); a line with text after the
\* response-size field is not tagged apache.
C17_ApacheWholeLine ==
  pc = "returned"
    => \A e \in AccessExamples :
         line = AccessLine(e)
           => IF e.tail = "" THEN IsAccessRecord(parsed_entry, e)
              ELSE Get(parsed_entry, "format") # PyStr("apache")

\* C17, amended: an access-log line parses to an apache record with its ip,
\* method, url, status and size ('-' as 0, missing request parts as ""),
\* whether or not text follows the response-size field.
C17_ApachePrefix ==
  pc = "returned"
    => \A e \in AccessExamples :
         line = AccessLine(e) => IsAccessRecord(parsed_entry, e)

\* an access-log line with a referrer and a user agent after the
\* response-size field was parsed, and tagged apache
C17_Witness ==
  /\ pc = "returned"
  /\ \E e \in AccessExamples : e.tail # "" /\ line = AccessLine(e)
  /\ parsed_entry.format = PyStr("apache")

\* the value of the first of keys that is present in d, default when none is
FirstPresent(d, keys, default) ==
  IF \E k \in 1..Len(keys) : keys[k] \in DOMAIN d
  THEN d[keys[CHOOSE k \in 1..Len(keys) :
                /\ keys[k] \in DOMAIN d
                /\ \A j \in 1..(k - 1) : keys[j] \notin DOMAIN d]]
  ELSE default

\* r holds, field by field, the first key present in the object d of line s
HoldsFirstPresent(r, d, s) ==
  /\ r.timestamp = FirstPresent(d, <<"timestamp", "time", "@timestamp">>, PyNone)
  /\ r.level = FirstPresent(d, <<"level", "severity">>, PyStr("INFO"))
  /\ r.message = FirstPresent(d, <<"message", "msg">>, PyStr(s))
  /\ r.service = FirstPresent(d, <<"service", "app">>, PyNone)

\* C18: each field of a json record is the value of the first key present
\* in the object, in the order timestamp/time/@timestamp, level/severity,
\* message/msg, service/app; INFO and the raw line are used for level and
\* message only when none of their keys is present.
C18_FirstPresentKey ==
  pc = "returned" /\ Get(parsed_entry, "format") = PyStr("json")
    => HoldsFirstPresent(parsed_entry, json_loads(line).v, line)

\* s starts with '{' and ends with '}'
JsonShaped(s) == Len(s) >= 2 /\ Ch(s, 1) = "{" /\ Ch(s, Len(s)) = "}"

\* lines of the JSON shape that are no JSON text: a bare word where a key
\* must stand, a string that never ends, text after the object, a bare word
\* after a member
MalformedJsonLines ==
  { "{not json}",
    "{\"level\": \"ERROR\", \"message\": \"unterminated}",
    "{\"ip\":1} - - [15/Jan/2024:10:30:00 +0000] \"GET / HTTP/1.1\" 200 5 }",
    LongBrokenJsonLine }

\* the file holds malformed JSON-shaped lines among blank lines and plain
\* generic lines only
MalformedJsonFile ==
  /\ \E k \in 1..Len(content) : content[k] \in MalformedJsonLines
  /\ \A k \in 1..Len(content) :
       \/ content[k] \in MalformedJsonLines /\ JsonShaped(content[k])
       \/ content[k] \in {"", "2024-01-15 10:30:01 [ERROR] Database connection failed"}

\* C19: a JSON-shaped line that is no JSON never aborts parse_file; each
\* such line of a file parsed whole yields exactly one record, with format
\* generic and the line as message, and the other lines keep their records.
C19_MalformedJsonIsGeneric ==
  pc \in {"parsed", "raised"} /\ source # "missing" /\ MalformedJsonFile
    => /\ pc = "parsed"
       /\ sample_rate = 100 /\ max_lines >= Len(content)
            => /\ Len(logs) = NonBlankLines
               /\ \A k \in 1..Len(content) :
                    content[k] \in MalformedJsonLines
                      => \E i \in 1..Len(logs) :
                           /\ logs[i].line_number = PyInt(k)
                           /\ logs[i].format = PyStr("generic")
                           /\ logs[i].message = PyStr(content[k])
                           /\ \A j \in 1..Len(logs) :
                                logs[j].line_number = PyInt(k) => j = i

\* C20: in the list parse_file returns, every record's line_number is the
\* 1-based position in the file of the line it was made from, and the line
\* numbers increase strictly along the list.
C20_LineNumberIsFilePosition ==
  pc = "parsed"
    => /\ \A i \in 1..Len(logs) :
            /\ logs[i].line_number.v \in 1..Len(content)
            /\ logs[i].raw_line = PyStr(Strip(content[logs[i].line_number.v]))
       /\ \A i \in 1..(Len(logs) - 1) :
            logs[i].line_number.v < logs[i + 1].line_number.v

\* C21: every record parse_file returns holds in raw_line the text of a line
\* of the file as it stands there, nothing added, removed or trimmed.
C21_RawLineIsSourceLine ==
  pc = "parsed"
    => \A i \in 1..Len(logs) :
         \E k \in 1..Len(content) : logs[i].raw_line = PyStr(content[k])

\* what the normalizer is to return for the example e in the year y
Normalized(e, y) ==
  CASE e[2] = "year" -> e[3]
    [] e[2] = "yearless" -> Pad4(y) \o e[3]
    [] OTHER -> e[1]

\* C22: _parse_timestamp returns for every string, never raising: the ISO
\* rendering when a layout with a year parses it, the ISO rendering in the
\* current year when a year-less layout parses it, the string itself when no
\* layout does.
C22_NormalizerTotalOrdered ==
  /\ pc \in {"_parse_timestamp", "returned"}
  /\ pc = "returned"
       => \A e \in TimestampExamples :
            line = e[1] => parsed_entry = PyStr(Normalized(e, current_year))

\* a year-less syslog timestamp was normalized into the current year
C22_Witness ==
  /\ pc = "returned"
  /\ line = "Jun 09 06:07:04"
  /\ parsed_entry = PyStr(Pad4(current_year) \o "-06-09T06:07:04")

\* the hour a record is stamped with, "" when it carries no timestamp of
\* the form YYYY-MM-DDTHH:MM:SSZ (the record lists are built with such
\* timestamps, or with none that parses)
HourStamp(log) ==
  IF /\ IsStr(Get(log, "timestamp")) /\ Len(Get(log, "timestamp").v) = 20
     /\ Ch(Get(log, "timestamp").v, 11) = "T" /\ Ch(Get(log, "timestamp").v, 20) = "Z"
  THEN SubSeq(Get(log, "timestamp").v, 1, 13)
  ELSE ""

\* the members of a finite set, one after the other
RECURSIVE SeqOf(_)
SeqOf(S) ==
  IF S = {} THEN <<>>
  ELSE <<CHOOSE x \in S : TRUE>> \o SeqOf(S \ {CHOOSE x \in S : TRUE})

\* the hours records of logs_ are stamped with
HourStamps(logs_) == SeqOf({HourStamp(logs_[i]) : i \in 1..Len(logs_)} \ {""})

HourTotal(logs_, h) == Cardinality({i \in 1..Len(logs_) : HourStamp(logs_[i]) = h})
HourErrors(logs_, h) ==
  Cardinality({i \in 1..Len(logs_) :
                 /\ HourStamp(logs_[i]) = h
                 /\ Upper(GetDefault(logs_[i], "level", PyStr("")).v) \in ErrorLevels})

RECURSIVE LcmAll(_)
LcmAll(sq) == IF sq = <<>> THEN 1 ELSE Lcm(Head(sq), LcmAll(Tail(sq)))

\* the error rates of the hours hs, all multiplied by the least common
\* multiple of the hours' totals
HourRates(logs_, hs) ==
  [k \in 1..Len(hs) |->
     HourErrors(logs_, hs[k])
       * (LcmAll([j \in 1..Len(hs) |-> HourTotal(logs_, hs[j])])
            \div HourTotal(logs_, hs[k]))]

\* hour k of hs, with the scaled rates x, is to be flagged: at least two
\* hours, stdev > 0 and |rate - mean| > 2 * stdev
SpikeAt(x, k) ==
  /\ Len(x) >= 2
  /\ SqDev(x) > 0
  /\ (Len(x) - 1) * Dev(x, k) * Dev(x, k) > 4 * SqDev(x)

\* rate > mean + 3 * stdev
SpikeHighAt(x, k) ==
  Dev(x, k) > 0 /\ (Len(x) - 1) * Dev(x, k) * Dev(x, k) > 9 * SqDev(x)

\* found holds one finding for each hour to be flagged, and no other
SpikeRule(found, hs, x) ==
  /\ Len(found) = Cardinality({k \in 1..Len(hs) : SpikeAt(x, k)})
  /\ \A k \in 1..Len(hs) :
       SpikeAt(x, k)
         => \E i \in 1..Len(found) :
              /\ SubSeq(found[i].timestamp, 1, 13) = hs[k]
              /\ found[i].severity = IF SpikeHighAt(x, k) THEN "high" ELSE "medium"

C24_PrefixesAreStripped ==
  pc = "done" /\ logs \in PrefixInputs
    => /\ Len(OfType(anomalies, "unusual_pattern")) = 1
       /\ OfType(anomalies, "unusual_pattern")[1].details.message = "disk full"
       /\ OfType(anomalies, "unusual_pattern")[1].details.count = 3

\* the records of error level, and those among them with the message m
ErrorRecords(logs_) ==
  {i \in 1..Len(logs_) :
     Upper(GetDefault(logs_[i], "level", PyStr("")).v) \in ErrorLevels}
WithMessage(logs_, m) ==
  {i \in ErrorRecords(logs_) : GetDefault(logs_[i], "message", PyStr("")).v = m}

\* at least 3 occurrences that are more than 30% of total, total >= 3
Repeated(count, total) == total >= 3 /\ count >= 3 /\ 10 * count > 3 * total

\* found holds a finding for m exactly when m is repeated among total
\* error records, with severity medium and the message, count and fraction
PatternRule(found, m, count, total) ==
  /\ (\E i \in 1..Len(found) : found[i].details.message = m)
       <=> Repeated(count, total)
  /\ \A i \in 1..Len(found) :
       found[i].details.message = m
         => /\ found[i].severity = "medium"
            /\ found[i].details.count = count
            /\ found[i].details.percentage = Rat(count, total)
            /\ \A j \in 1..Len(found) : found[j].details.message = m => j = i

\* C25: for record lists whose messages carry no prefix, a message is
\* flagged as unusual_pattern exactly when it occurs at least 3 times among
\* the error records and in more than 30% of all error records (at least 3),
\* with severity medium and details message, count and fraction.
C25_RepeatedPatternRule ==
  pc = "done" /\ logs \notin PrefixInputs
    => /\ \A m \in {"disk full", "timeout", "Database connection failed", "Test error"} :
            PatternRule(OfType(anomalies, "unusual_pattern"), m,
                        Cardinality(WithMessage(logs, m)),
                        Cardinality(ErrorRecords(logs)))
       /\ \A i \in 1..Len(anomalies) :
            anomalies[i].type = "unusual_pattern"
              => WithMessage(logs, anomalies[i].details.message) # {}

\* the minute a record is stamped with, "" when it has no hour stamp
MinuteStamp(log) ==
  IF HourStamp(log) = "" THEN "" ELSE SubSeq(Get(log, "timestamp").v, 1, 16)

\* the minutes records of logs_ are stamped with
MinuteStamps(logs_) == SeqOf({MinuteStamp(logs_[i]) : i \in 1..Len(logs_)} \ {""})

\* the number of records of each of the minutes ms
MinuteTotals(logs_, ms) ==
  [k \in 1..Len(ms) |->
     Cardinality({i \in 1..Len(logs_) : MinuteStamp(logs_[i]) = ms[k]})]

\* minute k, with the counts x, is to be flagged: stdev > 0 and
\* count > mean + 2 * stdev
BurstAt(x, k) ==
  /\ Len(x) >= 2
  /\ SqDev(x) > 0
  /\ Dev(x, k) > 0
  /\ (Len(x) - 1) * Dev(x, k) * Dev(x, k) > 4 * SqDev(x)

\* found holds one finding, of severity medium, for each minute to be
\* flagged, and no other
BurstRule(found, ms, x) ==
  /\ Len(found) = Cardinality({k \in 1..Len(ms) : BurstAt(x, k)})
  /\ \A i \in 1..Len(found) : found[i].severity = "medium"
  /\ \A k \in 1..Len(ms) :
       BurstAt(x, k)
         => \E i \in 1..Len(found) :
              /\ SubSeq(found[i].timestamp, 1, 16) = ms[k]
              /\ found[i].details.current_count = x[k]

\* C26: the frequency_anomaly findings are, one each and with severity
\* medium, the minutes whose record count exceeds the mean of the per-minute
\* counts by more than 2 sample standard deviations, the deviation being
\* > 0; none for a single minute, for equal minutes, or for a low count.
C26_BurstRule ==
  pc = "done"
    => BurstRule(OfType(anomalies, "frequency_anomaly"), MinuteStamps(logs),
                 MinuteTotals(logs, MinuteStamps(logs)))

\* a call over five quiet minutes and a burst returned one finding, for the
\* burst
C26_Witness ==
  /\ pc = "done"
  /\ logs = MinuteLogs(<<1, 1, 1, 1, 1, 4>>)
  /\ Len(OfType(anomalies, "frequency_anomaly")) = 1
  /\ OfType(anomalies, "frequency_anomaly")[1].details.current_count = 4

\* the hour of the day a record is stamped with
HourOfDay(log) == ToInt(SubSeq(Get(log, "timestamp").v, 12, 13))

\* the records of error level stamped with an hour outside 9..17
OffHourErrors(logs_) ==
  {i \in ErrorRecords(logs_) :
     HourStamp(logs_[i]) # "" /\ ~(9 <= HourOfDay(logs_[i]) /\ HourOfDay(logs_[i]) < 18)}

\* found holds one finding of severity low for each record of off, in the
\* order of the records, and no other
TimeRule(found, logs_, off) ==
  /\ Len(found) = Len(off)
  /\ \A k \in 1..Len(off) :
       /\ found[k].severity = "low"
       /\ found[k].timestamp = logs_[off[k]].timestamp.v
       /\ found[k].details.hour = HourOfDay(logs_[off[k]])

\* C27: the time_anomaly findings are, one each, in input order and with
\* severity low, the records of level ERROR, CRITICAL or FATAL whose
\* timestamp hour lies outside 9..17; no other record yields one.
C27_TimeOfDayRule ==
  pc = "done"
    => TimeRule(OfType(anomalies, "time_anomaly"), logs,
                Ascending(OffHourErrors(logs), Len(logs)))

\* a call over error records at 08, 09, 17, 18, 23 and 00 o'clock returned
\* four findings, the second of them for 18 o'clock
C27_Witness ==
  /\ pc = "done"
  /\ logs = TimeLogs("ERROR")
  /\ Len(OfType(anomalies, "time_anomaly")) = 4
  /\ OfType(anomalies, "time_anomaly")[2].details.hour = 18

\* the apache records of a list, and those among them of status v
ApacheRecords(logs_) == {i \in 1..Len(logs_) : IsApache(logs_[i])}
WithStatus(logs_, S, v) == {i \in S : Get(logs_[i], "status_code") = PyInt(v)}
StatusValues(logs_, S) == {Get(logs_[i], "status_code").v : i \in S}

\* the status findings are those of the statuses of S that are >= 400 and
\* whose share of S passes the test, one finding for each, with the severity
\* and the details of the rule
StatusRule(found, logs_, S, Passes(_, _)) ==
  /\ \A v \in StatusValues(logs_, S) :
       LET count == Cardinality(WithStatus(logs_, S, v))
           total == Cardinality(S)
           mine == SelectSeq(found, LAMBDA a : a.details.status_code = v)
       IN  IF v >= 400 /\ Passes(count, total)
           THEN /\ Len(mine) = 1
                /\ mine[1].severity = (IF v >= 500 THEN "high" ELSE "medium")
                /\ mine[1].details =
                     [status_code |-> v, count |-> count,
                      percentage |-> Rat(count, total), total_requests |-> total]
           ELSE mine = <<>>
  /\ \A k \in 1..Len(found) : found[k].details.status_code \in StatusValues(logs_, S)

AtLeastTenth(count, total) == 10 * count >= total
MoreThanTenth(count, total) == 10 * count > total

\* C28: among the apache records a status is flagged exactly when it is
\* >= 400 and held by at least 10% of all apache records, a share of exactly
\* 10% included; severity high from 500 on, medium below; details carry
\* the count, the fraction and the number of apache records.
C28_StatusRuleAtLeast ==
  pc = "done"
    => StatusRule(OfType(anomalies, "status_anomaly"), logs, ApacheRecords(logs),
                  AtLeastTenth)

\* C28 as the code has it: a status is flagged exactly when it is >= 400 and
\* held by more than 10% of the apache records whose status is not 0, a
\* share of exactly 10% excluded; severity high from 500 on, medium below;
\* details carry the count, the fraction and the number of those records.
C28_StatusRuleMoreThan ==
  pc = "done"
    => StatusRule(OfType(anomalies, "status_anomaly"), logs,
                  {i \in ApacheRecords(logs) : Get(logs[i], "status_code") # PyInt(0)},
                  MoreThanTenth)

\* 29 apache records of which 3 have status 503, a share just above 10%,
\* were analysed and the status was flagged with severity high
C28_Witness ==
  /\ pc = "done"
  /\ logs = StatusLogs(<< <<200, 26>>, <<503, 3>> >>)
  /\ Len(OfType(anomalies, "status_anomaly")) = 1
  /\ OfType(anomalies, "status_anomaly")[1].severity = "high"

\* C29: sampling applies whenever sample_rate < 1.0, whatever the source and
\* the size of the file: from a remote source parse_file returns at most
\* floor(total_lines * sample_rate) records; and with sample_rate 1.0 no
\* line is dropped, every non-blank line giving a record up to the cap.
C29_SamplingAtEverySize ==
  pc = "parsed"
    => /\ IsSupabase(file_path) /\ sample_rate < 100
            => Len(logs) <= (Len(content) * sample_rate) \div 100
       /\ sample_rate = 100 => Len(logs) = Min(NonBlankLines, max_lines)

====
